---- MODULE Spec2Model ----
(***************************************************************************)
(* GameHUBZ renderer: the scan supervisor (refresh button, scanner child   *)
(* processes, fallback chain, safety timers), the stdout progress protocol,*)
(* the incremental merge of discovered games into allGames, the cover      *)
(* image cache (fetchGameImage, fetchImageWithRetry, cleanupCache), and    *)
(* the render scheduler: the 150 ms debounce of sortAndRender, the filter, *)
(* the sort by getSortName and localeCompare, and the two render functions *)
(* renderGames and renderGamesWithProgress with their card timers; and,    *)
(* in the main process, the update checker of src/ui/updater.js.           *)
(*                                                                         *)
(* Strings are TLA+ strings; toLowerCase and trim are tabulated over the   *)
(* finite universe of names and platform tags used below.  A child's       *)
(* stdout is a sequence of byte groups, decoded chunk by chunk.            *)
(***************************************************************************)
EXTENDS Integers, Sequences, FiniteSets, TLC

VARIABLES
    allGames,           \* let allGames = []                 (the catalog)
    isScanning,         \* let isScanning = false
    btnDisabled,        \* #refresh-button .disabled
    scanTimer,          \* let scanTimer = null  (0 = null, else the timer's id)
    timers,             \* pending 180 s safety timers (id = pid of the process they kill)
    resetTimers,        \* pending 1 s timers of endScan that call setScanningUI(false)
    procs,              \* scanner child processes, in spawn order (pid = index)
    commandIndex,       \* one commandIndex per tryPythonFallback closure
    toast,              \* last message given to showToast by the supervisor
    sortAndRenderTimer, \* the debounce timer of sortAndRender (NoTimer = null)
    session,            \* number of accepted clicks on the refresh button
    ended,              \* endScan has been called since the last accepted click
    mpc,                \* progress of one progress unit handed to appendNewGames
    batch,              \* the games array of that progress unit
    cacheDir,           \* the files of CACHE_DIR: file name -> [size, mtime]
    now,                \* Date.now(), in milliseconds
    calls,              \* the fetchGameImage calls in progress, one per slot
    loaded,             \* the renderer module has been loaded (the app runs)
    activeFilter,       \* let activeFilter = 'all'
    searchInput,        \* #search-input .value
    sortSelect,         \* #sort-select .value
    isRendering,        \* let isRendering = false
    pendingCardTimers,  \* let pendingCardTimers = []  (the timers not yet fired)
    container,          \* the cards of #game-container, in document order
    passes,             \* the calls of renderGames / renderGamesWithProgress so far
    isChecking,         \* this.isChecking of the one GameHUBZUpdater
    updateAvailable,    \* this.updateAvailable
    awaiting,           \* checkForUpdates calls waiting on autoUpdater.checkForUpdates()
    offers,             \* open "update available" dialogs
    downloading,        \* autoUpdater.downloadUpdate() is running
    checkCalls          \* checkForUpdates calls made so far

vars == << allGames, isScanning, btnDisabled, scanTimer, timers, resetTimers,
           procs, commandIndex, toast, sortAndRenderTimer, session, ended,
           mpc, batch, cacheDir, now, calls, loaded,
           activeFilter, searchInput, sortSelect, isRendering,
           pendingCardTimers, container, passes,
           isChecking, updateAvailable, awaiting, offers, downloading, checkCalls >>

updaterVars == << isChecking, updateAvailable, awaiting, offers, downloading, checkCalls >>

cacheVars == << cacheDir, now, calls, loaded >>

catalogVars == << allGames, isScanning, btnDisabled, scanTimer, timers, resetTimers,
                  procs, commandIndex, toast, sortAndRenderTimer, session, ended,
                  mpc, batch >>

renderVars == << activeFilter, searchInput, sortSelect, isRendering,
                 pendingCardTimers, container, passes >>

\* what the render scheduler never writes
supervisorVars == << isScanning, btnDisabled, scanTimer, timers, resetTimers,
                     procs, commandIndex, toast, session, ended, mpc, batch >>

scanVars == << isScanning, btnDisabled, scanTimer, timers, resetTimers,
               procs, commandIndex, toast, sortAndRenderTimer, session, ended >>

-----------------------------------------------------------------------------
(* Bounds of the model *)

MaxGames == 3
MaxBatchLen == 2
MaxProcs == 3
MaxSessions == 2
MaxChunk == 40

\* the render scheduler
DEBOUNCE_MS == 150          \* setTimeout(..., 150) of sortAndRender
PROGRESS_THRESHOLD == 20    \* filtered.length > 20
batchSize == 8
CARD_STAGGER_MS == 50       \* setTimeout(..., i * 50)
BATCH_PAUSE_MS == 200       \* the pause between two batches

NoTimer == [due |-> 0, useProgressBar |-> FALSE]

-----------------------------------------------------------------------------
(* Generic helpers *)

RECURSIVE SeqToSet(_)
Min(S) == CHOOSE x \in S : \A y \in S : x <= y

SeqToSet(s) == IF s = << >> THEN {} ELSE {Head(s)} \cup SeqToSet(Tail(s))

IsPrefix(s, t) == Len(s) <= Len(t) /\ SubSeq(t, 1, Len(s)) = s

SeqsUpTo(S, n) == UNION { [1..k -> S] : k \in 0..n }

\* s is obtained from t by deleting elements (order kept)
RECURSIVE IsSubseq(_, _)
IsSubseq(s, t) ==
    IF s = << >> THEN TRUE
    ELSE IF t = << >> THEN FALSE
    ELSE IF Head(s) = Head(t) THEN IsSubseq(Tail(s), Tail(t))
    ELSE IsSubseq(s, Tail(t))

-----------------------------------------------------------------------------
(* Strings: String.prototype.toLowerCase and trim over the universe *)

NoValue == ""     \* an absent (undefined) or empty field: falsy in JavaScript

UpperCased == ("Foo" :> "foo") @@ ("Bar" :> "bar") @@ ("Baz" :> "baz")
              @@ ("Steam" :> "steam") @@ (" EGS " :> " egs ")

Padded == (" egs " :> "egs")

\* every other string of the universe has no upper-case letter
toLowerCase(s) == IF s \in DOMAIN UpperCased THEN UpperCased[s] ELSE s

\* every other string of the universe has no leading or trailing blank
trim(s) == IF s \in DOMAIN Padded THEN Padded[s] ELSE s

-----------------------------------------------------------------------------
(* Platform normalisation *)

PLATFORM_ALIASES ==
    [ epicgames |-> "epic", egs |-> "epic",
      goggalaxy |-> "gog", gog2 |-> "gog",
      eaapp |-> "ea", origin |-> "ea",
      uplay |-> "ubi", ubisoft |-> "ubi",
      msstore |-> "mstore", microsoftstore |-> "mstore", xbox |-> "mstore",
      battlenet |-> "bnet", blizzard |-> "bnet",
      cig |-> "starcitizen", sc |-> "starcitizen",
      rstars |-> "rockstar", rockstargames |-> "rockstar" ]

\* variant that looks the lower-cased value up without trimming it
normalizePlatform_NoTrim(p) ==
    IF p = NoValue THEN "all"
    ELSE LET key == toLowerCase(p)
         IN  IF key \in DOMAIN PLATFORM_ALIASES THEN PLATFORM_ALIASES[key] ELSE key

normalizePlatform(p) ==
    IF p = NoValue THEN "all"
    ELSE LET key == trim(toLowerCase(p))
         IN  IF key \in DOMAIN PLATFORM_ALIASES THEN PLATFORM_ALIASES[key] ELSE key

-----------------------------------------------------------------------------
(* Game records reported by a scanner *)

Game(n, p, a) == [name |-> n, platform |-> p, appid |-> a]

GameOf ==
    [ a |-> Game("Foo", "steam", "1"),
      b |-> Game("Bar", "epicgames", NoValue),
      c |-> Game("foo", "Steam", NoValue),
      d |-> Game("Baz", " EGS ", "1"),
      e |-> Game("a_b", "c", NoValue),
      f |-> Game("a", "b_c", "2") ]

ReportedGames == { GameOf[k] : k \in DOMAIN GameOf }

Batches == SeqsUpTo(ReportedGames, MaxBatchLen)

-----------------------------------------------------------------------------
(* appendNewGames *)

NormalizedGames(newGames) ==
    [ i \in 1..Len(newGames) |->
        [ newGames[i] EXCEPT !.platform = normalizePlatform(newGames[i].platform) ] ]

NameKey(g) == toLowerCase(g.name) \o "_" \o g.platform

ExistingAppIds(games) == { games[i].appid : i \in 1..Len(games) }

ExistingNames(games) == { NameKey(games[i]) : i \in 1..Len(games) }

\* variant of the filter callback that forgets the name+platform test
IsUnique_ByIdOnly(g, games) ==
    ~(g.appid # NoValue /\ g.appid \in ExistingAppIds(games))

\* the filter callback: both sets were built from allGames before the filter ran
IsUnique(g, games) ==
    LET isDuplicateById   == g.appid # NoValue /\ g.appid \in ExistingAppIds(games)
        isDuplicateByName == NameKey(g) \in ExistingNames(games)
    IN  ~isDuplicateById /\ ~isDuplicateByName

UniqueGames(games, newGames) ==
    SelectSeq(NormalizedGames(newGames), LAMBDA g : IsUnique(g, games))

\* variant that puts the new games in front (unshift instead of push)
Pushed_Unshift(games, uniqueGames) == uniqueGames \o games

\* allGames after appendNewGames(newGames): allGames.push(...uniqueGames)
Pushed(games, uniqueGames) == games \o uniqueGames

\* g.name.toLowerCase() of a record without name (name undefined) throws a
\* TypeError
HasName(g) == g.name # NoValue

\* the first record of newGames without name, or Len(newGames) + 1
FirstNameless(newGames) ==
    Min({ i \in 1..Len(newGames) : ~HasName(newGames[i]) } \cup { Len(newGames) + 1 })

\* variant that filters and pushes record by record: what stands before the
\* record that throws is in the catalog when the exception is raised
AppendNewGames_PushUntilThrow(games, newGames) ==
    IF newGames = << >> THEN games
    ELSE Pushed(games, UniqueGames(games, SubSeq(newGames, 1, FirstNameless(newGames) - 1)))

\* allGames when the call has ended.  existingNames is built from allGames
\* and the filter runs over the whole batch before anything is pushed: an
\* exception in either ends the call (the async function's promise is
\* rejected) with allGames as it was.
AppendNewGames(games, newGames) ==
    IF newGames = << >> THEN games
    ELSE IF \/ \E i \in 1..Len(games) : ~HasName(games[i])
            \/ \E i \in 1..Len(newGames) : ~HasName(newGames[i])
         THEN games
         ELSE Pushed(games, UniqueGames(games, newGames))

-----------------------------------------------------------------------------
(* The progress protocol on a child's stdout.  stdout delivers Buffers: a    *)
(* stream is a sequence of byte groups.  An ASCII character is one group.    *)
(* The JSON text of a record whose name holds the two-byte character U+00E9   *)
(* (bytes C3 A9) is two groups, cut between the two bytes of that character.  *)

NL == "\n"

ACCENT_HEAD == "g:C3"      \* the record's bytes up to and including C3
ACCENT_TAIL == "A9:g"      \* A9 and the rest of the record's bytes
ACCENT_WHOLE == "g"        \* the record's text when C3 A9 was decoded together
GARBLED_HEAD == "g:FFFD"   \* the text of ACCENT_HEAD decoded alone
GARBLED_TAIL == "FFFD:g"   \* the text of ACCENT_TAIL decoded alone
GARBLED_WHOLE == "g:FFFD:FFFD:g"

\* data.toString(): UTF-8 decoding of one chunk on its own; a character cut
\* by the end or by the beginning of the chunk becomes U+FFFD
RECURSIVE toString(_)
toString(bytes) ==
    IF bytes = << >> THEN << >>
    ELSE IF Head(bytes) = ACCENT_HEAD
         THEN IF Len(bytes) >= 2 /\ bytes[2] = ACCENT_TAIL
              THEN << ACCENT_WHOLE >> \o toString(SubSeq(bytes, 3, Len(bytes)))
              ELSE << GARBLED_HEAD >> \o toString(Tail(bytes))
    ELSE IF Head(bytes) = ACCENT_TAIL
         THEN << GARBLED_TAIL >> \o toString(Tail(bytes))
    ELSE << Head(bytes) >> \o toString(Tail(bytes))

PROGRESS == << "P", "R", "O", "G", "R", "E", "S", "S", ":" >>

\* text.split('\n'): the segments between newlines (always at least one)
RECURSIVE Split(_, _)
Split(text, cur) ==
    IF text = << >> THEN << cur >>
    ELSE IF Head(text) = NL THEN << cur >> \o Split(Tail(text), << >>)
    ELSE Split(Tail(text), Append(cur, Head(text)))

startsWith(line, prefix) == IsPrefix(prefix, line)

substring(line, n) == SubSeq(line, n + 1, Len(line))

\* the records a payload can hold: one per letter of GameOf, the record with
\* the accented name, and that record with its character replaced by two U+FFFD
RecordOf ==
    GameOf @@ (ACCENT_WHOLE :> Game("pok(U+00E9)mon", "steam", NoValue))
           @@ (GARBLED_WHOLE :> Game("pok(U+FFFD)(U+FFFD)mon", "steam", NoValue))
           @@ ("u" :> Game(NoValue, "steam", "3"))

\* the two halves of the garbled record, once joined in the buffer, are the
\* text of one record
RECURSIVE Tokens(_)
Tokens(text) ==
    IF text = << >> THEN << >>
    ELSE IF Head(text) = GARBLED_HEAD /\ Len(text) >= 2 /\ text[2] = GARBLED_TAIL
         THEN << GARBLED_WHOLE >> \o Tokens(SubSeq(text, 3, Len(text)))
         ELSE << Head(text) >> \o Tokens(Tail(text))

\* JSON.parse over the payloads a scanner of the model writes: "{" games "}" is
\* an object whose games array holds the records written between the braces,
\* "n" is the JSON value null, anything else is a SyntaxError.
IsObject(payload) ==
    /\ Len(payload) >= 2
    /\ payload[1] = "{"
    /\ payload[Len(payload)] = "}"
    /\ LET inner == Tokens(SubSeq(payload, 2, Len(payload) - 1))
       IN  \A i \in 1..Len(inner) : inner[i] \in DOMAIN RecordOf

JSONParse(payload) ==
    IF IsObject(payload)
    THEN LET inner == Tokens(SubSeq(payload, 2, Len(payload) - 1))
         IN  [ok |-> TRUE, isNull |-> FALSE,
              games |-> [ i \in 1..Len(inner) |-> RecordOf[inner[i]] ]]
    ELSE IF payload = << "n" >>
    THEN [ok |-> TRUE, isNull |-> TRUE, games |-> << >>]
    ELSE [ok |-> FALSE, isNull |-> FALSE, games |-> << >>]

\* the try block of the line loop completes (no exception reaches the catch):
\* JSON.parse succeeded and progressData.platform could be read
ParsesAsProgress(line) ==
    /\ startsWith(line, PROGRESS)
    /\ LET r == JSONParse(substring(line, Len(PROGRESS))) IN r.ok /\ ~r.isNull

\* a PROGRESS: line that ends in the catch block
IsDroppedLine(line) == startsWith(line, PROGRESS) /\ ~ParsesAsProgress(line)

\* one iteration of `for (const line of lines)`, as the catalog it leaves
ProcessLine(games, line) ==
    IF startsWith(line, PROGRESS)
    THEN LET r == JSONParse(substring(line, Len(PROGRESS)))
         IN  IF r.ok /\ ~r.isNull /\ Len(r.games) > 0
             THEN AppendNewGames(games, r.games)
             ELSE games
    ELSE games

\* variant whose try/catch encloses the whole loop: the first line that throws
\* ends the processing of the chunk
RECURSIVE ProcessLines_CatchOutsideLoop(_, _)
ProcessLines_CatchOutsideLoop(games, lines) ==
    IF lines = << >> THEN games
    ELSE IF IsDroppedLine(Head(lines)) THEN games
    ELSE ProcessLines_CatchOutsideLoop(ProcessLine(games, Head(lines)), Tail(lines))

RECURSIVE ProcessLines(_, _)
ProcessLines(games, lines) ==
    IF lines = << >> THEN games
    ELSE ProcessLines(ProcessLine(games, Head(lines)), Tail(lines))

Line(payload) == PROGRESS \o payload \o << NL >>

-----------------------------------------------------------------------------
(* The scan supervisor.  Handlers call one another (close -> onErrorCallback *)
(* -> tryNextPythonCommand -> setupProcessHandlers ...), so each function is *)
(* an operator from supervisor state to supervisor state, and an action      *)
(* installs the state its handler leaves.                                    *)

Scan ==
    [ procs |-> procs, timers |-> timers, scanTimer |-> scanTimer,
      resetTimers |-> resetTimers, commandIndex |-> commandIndex, toast |-> toast,
      session |-> session, ended |-> ended ]

Install(s) ==
    /\ procs' = s.procs
    /\ timers' = s.timers
    /\ scanTimer' = s.scanTimer
    /\ resetTimers' = s.resetTimers
    /\ commandIndex' = s.commandIndex
    /\ toast' = s.toast
    /\ session' = s.session
    /\ ended' = s.ended

pythonCommands == << "python", "py", "python3" >>

showToast(s, message) == [s EXCEPT !.toast = message]

\* clearTimeout(scanTimer) when it is set, then the 1 s timer that resets the UI
endScan(s) ==
    [s EXCEPT !.timers = IF s.scanTimer # 0 THEN @ \ {s.scanTimer} ELSE @,
              !.scanTimer = 0,
              !.resetTimers = @ + 1,
              !.ended = TRUE]

Pids == 1..Len(procs)

\* what the child p has not written yet
Unwritten(p) == Len(procs[p].out) - procs[p].pos

\* variant with one line buffer for the whole chain: the child starts with
\* what the process it replaces left unterminated
startScanProcess_SharedBuffer(s, cmd, chain, cause, parent, out) ==
    [s EXCEPT !.procs = Append(@,
        [ cmd |-> cmd, chain |-> chain, st |-> "alive", session |-> s.session,
          out |-> out, pos |-> 0,
          outputBuffer |-> IF parent = 0 THEN << >> ELSE s.procs[parent].outputBuffer,
          dropped |-> FALSE, cause |-> cause, parent |-> parent ])]

\* spawn(): the new child, with the stdout text it is going to write.
\* chain = 0: its onErrorCallback is tryPythonFallback (the .exe);
\* chain = c: its onErrorCallback advances the closure c of tryPythonFallback.
\* cause and parent record how the spawn came about.
startScanProcess(s, cmd, chain, cause, parent, out) ==
    [s EXCEPT !.procs = Append(@,
        [ cmd |-> cmd, chain |-> chain, st |-> "alive", session |-> s.session,
          out |-> out, pos |-> 0, outputBuffer |-> << >>, dropped |-> FALSE,
          cause |-> cause, parent |-> parent ])]

\* the handlers of the process just spawned, and its own safety timer
setupProcessHandlers(s) ==
    LET pid == Len(s.procs)
    IN  [s EXCEPT !.timers = @ \cup {pid}, !.scanTimer = pid]

tryNextPythonCommand(s, c, cause, parent, out) ==
    IF s.commandIndex[c] >= Len(pythonCommands)
    THEN endScan(showToast(s, "Erreur: Python non trouve"))
    ELSE setupProcessHandlers(
             startScanProcess(s, pythonCommands[s.commandIndex[c] + 1], c,
                              cause, parent, out))

tryPythonFallback(s, scriptExists, cause, parent, out) ==
    IF ~scriptExists
    THEN endScan(showToast(s, "Erreur: ni .exe ni .py trouves"))
    ELSE LET s1 == [s EXCEPT !.commandIndex = Append(@, 0)]
         IN  tryNextPythonCommand(s1, Len(s1.commandIndex), cause, parent, out)

\* the onErrorCallback that setupProcessHandlers was given for process p
onErrorCallback(s, p, scriptExists, cause, out) ==
    LET c == s.procs[p].chain
    IN  IF c = 0
        THEN tryPythonFallback(s, scriptExists, cause, p, out)
        ELSE tryNextPythonCommand([s EXCEPT !.commandIndex[c] = @ + 1], c, cause, p, out)

setScanningUI(on) ==
    /\ isScanning' = on
    /\ btnDisabled' = on

\* variant that leaves a pending timer as it is
sortAndRender_NoRearm(useProgressBar) ==
    IF sortAndRenderTimer # NoTimer THEN sortAndRenderTimer
    ELSE [due |-> now + DEBOUNCE_MS, useProgressBar |-> useProgressBar]

\* sortAndRender(useProgressBar): the pending timer is cleared and a new one
\* is armed; the value is the new sortAndRenderTimer
sortAndRender(useProgressBar) ==
    [due |-> now + DEBOUNCE_MS, useProgressBar |-> useProgressBar]

-----------------------------------------------------------------------------
(* Handlers *)

\* btn.onclick of the refresh button; a disabled button dispatches no click.
\* exeExists, scriptExists: what fs.existsSync answers; out: what the child
\* spawned by this handler (if any) is going to write.
Click(exeExists, scriptExists, out) ==
    /\ ~btnDisabled
    /\ mpc = "idle"
    /\ session < MaxSessions
    /\ allGames' = << >>
    /\ setScanningUI(TRUE)
    /\ LET s0 == [Scan EXCEPT !.session = @ + 1, !.ended = FALSE]
           s1 == IF exeExists
                 THEN setupProcessHandlers(startScanProcess(s0, "exe", 0, "click", 0, out))
                 ELSE tryPythonFallback(s0, scriptExists, "click", 0, out)
       IN  Len(s1.procs) <= MaxProcs /\ Install(s1)
    /\ pendingCardTimers' = << >>
    /\ container' = << >>
    /\ UNCHANGED << sortAndRenderTimer, mpc, batch >>
    /\ UNCHANGED << activeFilter, searchInput, sortSelect, isRendering, passes >>
    /\ UNCHANGED cacheVars
    /\ UNCHANGED updaterVars

\* scanProcess.stdout.on('data'): the child's next n characters arrive
OnData(p, n) ==
    /\ p \in Pids
    /\ procs[p].st \in {"alive", "killed"}
    /\ n \in 1..Unwritten(p)
    /\ mpc = "idle"
    /\ LET text  == toString(SubSeq(procs[p].out, procs[p].pos + 1, procs[p].pos + n))
           split == Split(procs[p].outputBuffer \o text, << >>)
           lines == SubSeq(split, 1, Len(split) - 1)
       IN  /\ allGames' = ProcessLines(allGames, lines)
           /\ Len(allGames') <= MaxGames
           /\ procs' = [procs EXCEPT
                  ![p].pos = @ + n,
                  ![p].outputBuffer = split[Len(split)],
                  ![p].dropped = @ \/ \E i \in 1..Len(lines) : IsDroppedLine(lines[i])]
    /\ UNCHANGED << isScanning, btnDisabled, scanTimer, timers, resetTimers,
                    commandIndex, toast, sortAndRenderTimer, session, ended,
                    mpc, batch >>
    /\ UNCHANGED cacheVars
    /\ UNCHANGED renderVars
    /\ UNCHANGED updaterVars

\* scanProcess.on('close'): code 0, or anything else (an exit code, a failed
\* spawn's negative code, null after a signal).  A child that is still alive
\* closes once it has written all of its output.
Close(p, code, scriptExists, out) ==
    /\ p \in Pids
    /\ procs[p].st \in {"alive", "killed", "errored"}
    /\ procs[p].st = "alive" => procs[p].pos = Len(procs[p].out)
    /\ procs[p].st = "errored" => code # 0
    /\ mpc = "idle"
    /\ LET s0 == [Scan EXCEPT !.procs[p].st = "closed"]
           s1 == IF code = 0
                 THEN endScan(showToast(s0, "Scan termine avec succes"))
                 ELSE onErrorCallback(s0, p, scriptExists,
                          IF procs[p].st = "killed" THEN "kill" ELSE "close", out)
       IN  Len(s1.procs) <= MaxProcs /\ Install(s1)
    /\ sortAndRenderTimer' = IF code = 0 THEN sortAndRender(FALSE) ELSE sortAndRenderTimer
    /\ UNCHANGED << allGames, isScanning, btnDisabled, mpc, batch >>
    /\ UNCHANGED cacheVars
    /\ UNCHANGED renderVars
    /\ UNCHANGED updaterVars

\* scanProcess.on('error'): the spawn failed (ENOENT, EACCES); 'close' may or
\* may not follow for the same child
ProcError(p, scriptExists, out) ==
    /\ p \in Pids
    /\ procs[p].st = "alive"
    /\ procs[p].pos = 0
    /\ mpc = "idle"
    /\ LET s0 == [Scan EXCEPT !.procs[p].st = "errored"]
           s1 == onErrorCallback(s0, p, scriptExists, "error", out)
       IN  Len(s1.procs) <= MaxProcs /\ Install(s1)
    /\ UNCHANGED << allGames, isScanning, btnDisabled, sortAndRenderTimer, mpc, batch >>
    /\ UNCHANGED cacheVars
    /\ UNCHANGED renderVars
    /\ UNCHANGED updaterVars

\* the callback of the safety timer armed for process t
Timeout(t) ==
    /\ t \in timers
    /\ mpc = "idle"
    /\ LET s0 == [Scan EXCEPT
                    !.timers = @ \ {t},
                    !.procs[t].st = IF @ = "alive" THEN "killed" ELSE @]
       IN  Install(endScan(showToast(s0, "Analyse interrompue (timeout)")))
    /\ UNCHANGED << allGames, isScanning, btnDisabled, sortAndRenderTimer, mpc, batch >>
    /\ UNCHANGED cacheVars
    /\ UNCHANGED renderVars
    /\ UNCHANGED updaterVars

\* the callback of the 1 s timer set by endScan
ResetUI ==
    /\ resetTimers > 0
    /\ mpc = "idle"
    /\ resetTimers' = resetTimers - 1
    /\ setScanningUI(FALSE)
    /\ UNCHANGED << allGames, scanTimer, timers, procs, commandIndex, toast,
                    sortAndRenderTimer, session, ended, mpc, batch >>
    /\ UNCHANGED cacheVars
    /\ UNCHANGED renderVars
    /\ UNCHANGED updaterVars

-----------------------------------------------------------------------------
(* One progress unit, step by step: the line is parsed, appendNewGames is   *)
(* called with its games, and the scanner may write the same line again.    *)

ProgressUnit(b) ==
    /\ mpc = "idle"
    /\ \E p \in Pids : procs[p].st = "alive"
    /\ Len(AppendNewGames(allGames, b)) <= MaxGames
    /\ mpc' = "call"
    /\ batch' = b
    /\ UNCHANGED << allGames >>
    /\ UNCHANGED scanVars
    /\ UNCHANGED cacheVars
    /\ UNCHANGED renderVars
    /\ UNCHANGED updaterVars

CallAppendNewGames ==
    /\ mpc \in {"call", "recall"}
    /\ allGames' = AppendNewGames(allGames, batch)
    /\ mpc' = IF mpc = "call" THEN "done" ELSE "redone"
    /\ UNCHANGED batch
    /\ UNCHANGED scanVars
    /\ UNCHANGED cacheVars
    /\ UNCHANGED renderVars
    /\ UNCHANGED updaterVars

RepeatUnit ==
    /\ mpc = "done"
    /\ Len(AppendNewGames(allGames, batch)) <= MaxGames
    /\ mpc' = "recall"
    /\ UNCHANGED << allGames, batch >>
    /\ UNCHANGED scanVars
    /\ UNCHANGED cacheVars
    /\ UNCHANGED renderVars
    /\ UNCHANGED updaterVars

NextUnit ==
    /\ mpc \in {"done", "redone"}
    /\ mpc' = "idle"
    /\ batch' = << >>
    /\ UNCHANGED << allGames >>
    /\ UNCHANGED scanVars
    /\ UNCHANGED cacheVars
    /\ UNCHANGED renderVars
    /\ UNCHANGED updaterVars

-----------------------------------------------------------------------------
(* The image cache: fetchGameImage, fetchImageWithRetry, downloadImage.      *)
(* A call lives in a slot; time is the clock `now`, advanced by Tick; the    *)
(* timers of a call (the race timeout, the retry delay) fire when due.       *)
(* unlinkSync and statSync of an existing file succeed; utimesSync may fail. *)

MIN_IMAGE_SIZE == 1024      \* if (stats.size > 1024)
timeout == 3000             \* fetchGameImage(game, timeout = 3000)
maxRetries == 2             \* fetchImageWithRetry(game, localPath, maxRetries = 2)
RETRY_DELAY == 1000         \* setTimeout(resolve, 1000) in the catch of the loop

TickMs == 1000              \* the clock advances by this much
MaxTicks == 5               \* and this many times
StartTime == 10000          \* Date.now() when the renderer is loaded

Slots == {1, 2}

PLACEHOLDER == "img/placeholder.png"

\* ${value} in a template literal: an absent field prints as "undefined"
TemplateText(v) == IF v = NoValue THEN "undefined" ELSE v

fileName(game) == game.platform \o "_" \o TemplateText(game.appid) \o ".jpg"

pathToFileURL(name) == "file:///cache/" \o name

\* fs on the files of CACHE_DIR
unlink(dir, name) == [f \in DOMAIN dir \ {name} |-> dir[f]]

writeFile(dir, name, size, t) ==
    [f \in DOMAIN dir \cup {name} |->
        IF f = name THEN [size |-> size, mtime |-> t] ELSE dir[f]]

utimes(dir, name, t) == [dir EXCEPT ![name].mtime = t]

\* variant of the size test that accepts any non-empty file
IsValidSize_NotEmpty(size) == size > 0

IsValidSize(size) == size > MIN_IMAGE_SIZE

NoGame == Game(NoValue, NoValue, NoValue)

\* pc: idle | hit | search | grid | download | backoff | returned | threw
\* result: none | pending | rejected | PLACEHOLDER | a file URL
\* found: what the call saw at its key path: none | small | valid
\* search: the last answer of the search step: none | hit | empty | nosuccess | error
\* orphan: the file the call's write stream has open was unlinked meanwhile
IdleCall ==
    [ pc |-> "idle", game |-> NoGame, attempt |-> 0, result |-> "none",
      deadline |-> 0, wake |-> 0, requests |-> 0, found |-> "none",
      search |-> "none", orphan |-> FALSE ]

\* variant of the end of fetchGameImage without its catch block
raceSettles_NoCatch(call, outcome) ==
    IF call.result # "pending" THEN call.result
    ELSE IF outcome = "error" THEN "rejected" ELSE outcome

\* await Promise.race([...]) inside try/catch: the first outcome settles the
\* call; a rejection ("error") is caught and becomes the placeholder
raceSettles(call, outcome) ==
    IF call.result # "pending" THEN call.result
    ELSE IF outcome = "error" THEN PLACEHOLDER ELSE outcome

\* variant of the catch block of the retry loop that never gives up
catchAttempt_RetryForever(call, t) ==
    [call EXCEPT !.pc = "backoff", !.wake = t + RETRY_DELAY]

\* the catch block of the retry loop, entered at time t
catchAttempt(call, t) ==
    IF call.attempt = maxRetries
    THEN [call EXCEPT !.pc = "threw", !.result = raceSettles(call, "error")]
    ELSE [call EXCEPT !.pc = "backoff", !.wake = t + RETRY_DELAY]

\* variant of the not-found exit that is handled as a failed attempt
notFound_Retry(call, t) == catchAttempt(call, t)

\* `break`, then `return getAssetPath('img/placeholder.png')`
notFound(call, t) ==
    [call EXCEPT !.pc = "returned", !.result = raceSettles(call, PLACEHOLDER)]

Running(c) == calls[c].pc \in {"search", "grid", "download", "backoff"}

\* unlink of `name` by the call in slot c: the name leaves the directory, and
\* the write stream another call has open on that file keeps writing to a
\* file that has no name any more
unlinked(cs, c, name) ==
    [ d \in Slots |->
        IF d # c /\ cs[d].pc = "download" /\ fileName(cs[d].game) = name
        THEN [cs[d] EXCEPT !.orphan = TRUE]
        ELSE cs[d] ]

\* fetchGameImage(g) up to its first await
FetchGameImage(c, g, utimesOk) ==
    /\ loaded
    /\ calls[c].pc = "idle"
    /\ g \in SeqToSet(allGames)
    /\ LET name  == fileName(g)
           there == name \in DOMAIN cacheDir
           valid == there /\ IsValidSize(cacheDir[name].size)
           seen  == IF ~there THEN "none" ELSE IF valid THEN "valid" ELSE "small"
       IN  IF valid /\ utimesOk
           THEN /\ cacheDir' = utimes(cacheDir, name, now)
                /\ calls' = [calls EXCEPT ![c] =
                       [IdleCall EXCEPT !.pc = "hit", !.game = g, !.found = seen,
                                        !.result = pathToFileURL(name)]]
           ELSE /\ cacheDir' = IF there THEN unlink(cacheDir, name) ELSE cacheDir
                /\ calls' = [(IF there THEN unlinked(calls, c, name) ELSE calls)
                       EXCEPT ![c] =
                       [IdleCall EXCEPT !.pc = "search", !.game = g, !.found = seen,
                                        !.result = "pending", !.requests = 1,
                                        !.deadline = now + timeout]]
    /\ UNCHANGED << now, loaded >>
    /\ UNCHANGED catalogVars
    /\ UNCHANGED renderVars
    /\ UNCHANGED updaterVars

\* the answer of /search/autocomplete: a hit, an empty list, success: false,
\* or an exception (fetch rejects, the body is no JSON, data is missing)
SearchResponse(c, outcome) ==
    /\ calls[c].pc = "search"
    /\ LET call == [calls[c] EXCEPT !.search = outcome]
       IN  calls' = [calls EXCEPT ![c] =
               CASE outcome = "hit" -> [call EXCEPT !.pc = "grid", !.requests = @ + 1]
                 [] outcome \in {"empty", "nosuccess"} -> notFound(call, now)
                 [] outcome = "error" -> catchAttempt(call, now)]
    /\ UNCHANGED << cacheDir, now, loaded >>
    /\ UNCHANGED catalogVars
    /\ UNCHANGED renderVars
    /\ UNCHANGED updaterVars

\* the answer of /grids/game; on a hit downloadImage opens the write stream
\* (the file is created or truncated) and sends the request
GridResponse(c, outcome) ==
    /\ calls[c].pc = "grid"
    /\ calls' = [calls EXCEPT ![c] =
           CASE outcome = "hit" -> [@ EXCEPT !.pc = "download", !.requests = @ + 1]
             [] outcome \in {"empty", "nosuccess"} -> notFound(@, now)
             [] outcome = "error" -> catchAttempt(@, now)]
    /\ cacheDir' = IF outcome = "hit"
                   THEN writeFile(cacheDir, fileName(calls[c].game), 0, now)
                   ELSE cacheDir
    /\ UNCHANGED << now, loaded >>
    /\ UNCHANGED catalogVars
    /\ UNCHANGED renderVars
    /\ UNCHANGED updaterVars

\* downloadImage resolves: status 200, the body (size bytes) is in the file
\* the stream has open, which is the file at dest unless that was unlinked
DownloadEnds(c, size) ==
    /\ calls[c].pc = "download"
    /\ cacheDir' = IF calls[c].orphan
                   THEN cacheDir
                   ELSE writeFile(cacheDir, fileName(calls[c].game), size, now)
    /\ calls' = [calls EXCEPT ![c] =
           [@ EXCEPT !.pc = "returned", !.orphan = FALSE,
                     !.result = raceSettles(calls[c],
                                    pathToFileURL(fileName(calls[c].game)))]]
    /\ UNCHANGED << now, loaded >>
    /\ UNCHANGED catalogVars
    /\ UNCHANGED renderVars
    /\ UNCHANGED updaterVars

\* downloadImage rejects (another status, a request error): fs.unlink(dest)
DownloadFails(c) ==
    /\ calls[c].pc = "download"
    /\ cacheDir' = unlink(cacheDir, fileName(calls[c].game))
    /\ calls' = [unlinked(calls, c, fileName(calls[c].game)) EXCEPT ![c] =
                     catchAttempt([@ EXCEPT !.orphan = FALSE], now)]
    /\ UNCHANGED << now, loaded >>
    /\ UNCHANGED catalogVars
    /\ UNCHANGED renderVars
    /\ UNCHANGED updaterVars

\* the retry delay is over: the next iteration of the loop sends the search
BackoffElapsed(c) ==
    /\ calls[c].pc = "backoff"
    /\ now >= calls[c].wake
    /\ calls' = [calls EXCEPT ![c] =
           [@ EXCEPT !.pc = "search", !.attempt = @ + 1, !.requests = @ + 1]]
    /\ UNCHANGED << cacheDir, now, loaded >>
    /\ UNCHANGED catalogVars
    /\ UNCHANGED renderVars
    /\ UNCHANGED updaterVars

\* the timer of the race rejects; once the race is settled it changes nothing
TimeoutFires(c) ==
    /\ calls[c].result = "pending"
    /\ now >= calls[c].deadline
    /\ calls' = [calls EXCEPT ![c].result = raceSettles(calls[c], "error")]
    /\ UNCHANGED << cacheDir, now, loaded >>
    /\ UNCHANGED catalogVars
    /\ UNCHANGED renderVars
    /\ UNCHANGED updaterVars

\* the caller has its cover and fetchImageWithRetry has ended: the slot is free
CallEnds(c) ==
    /\ calls[c].pc \in {"hit", "returned", "threw"}
    /\ calls[c].result # "pending"
    /\ calls' = [calls EXCEPT ![c] = IdleCall]
    /\ UNCHANGED << cacheDir, now, loaded >>
    /\ UNCHANGED catalogVars
    /\ UNCHANGED renderVars
    /\ UNCHANGED updaterVars

\* time passes, unless a timer is due
Tick ==
    /\ now < StartTime + MaxTicks * TickMs
    /\ \A c \in Slots :
          /\ ~(calls[c].pc = "backoff" /\ calls[c].wake <= now)
          /\ ~(calls[c].result = "pending" /\ calls[c].deadline <= now)
    /\ now' = now + TickMs
    /\ UNCHANGED << cacheDir, calls, loaded >>
    /\ UNCHANGED catalogVars
    /\ UNCHANGED renderVars
    /\ UNCHANGED updaterVars

-----------------------------------------------------------------------------
(* cleanupCache, run when the module is loaded and CACHE_DIR exists.  The    *)
(* files of a swept directory are named 1..n, in the order of the listing.   *)

MAX_CACHE_SIZE_MB == 500
MAX_FILES == 1000
OLDEST_FILES == 200         \* fileStats.slice(0, 200)
MB == 1024 * 1024


\* fs.readdirSync(CACHE_DIR): the names of the files, in name order
readdirSync(dir) ==
    IF DOMAIN dir = {} THEN << >>
    ELSE SelectSeq([i \in 1..(CHOOSE m \in DOMAIN dir : \A f \in DOMAIN dir : f <= m) |-> i],
                   LAMBDA i : i \in DOMAIN dir)

Max(S) == CHOOSE x \in S : \A y \in S : x >= y

\* variant that sorts with (a, b) => b.mtime - a.mtime: newest first
RECURSIVE sortByMtime_NewestFirst(_, _)
sortByMtime_NewestFirst(files, dir) ==
    IF files = << >> THEN << >>
    ELSE LET t == Max({ dir[files[i]].mtime : i \in 1..Len(files) })
         IN  SelectSeq(files, LAMBDA f : dir[f].mtime = t)
             \o sortByMtime_NewestFirst(SelectSeq(files, LAMBDA f : dir[f].mtime # t), dir)

\* .sort((a, b) => a.mtime - b.mtime): oldest first, files of equal mtime in
\* the order of the listing (Array.prototype.sort is stable)
RECURSIVE sortByMtime(_, _)
sortByMtime(files, dir) ==
    IF files = << >> THEN << >>
    ELSE LET t == Min({ dir[files[i]].mtime : i \in 1..Len(files) })
         IN  SelectSeq(files, LAMBDA f : dir[f].mtime = t)
             \o sortByMtime(SelectSeq(files, LAMBDA f : dir[f].mtime # t), dir)

unlinkAll(dir, names) ==
    [f \in DOMAIN dir \ { names[i] : i \in 1..Len(names) } |-> dir[f]]

\* the sum of v * (number of files of size v) over the sizes v of `values`
RECURSIVE sumBySize(_, _, _)
sumBySize(values, there, dir) ==
    IF values = {} THEN 0
    ELSE LET v == Min(values)
         IN  v * Len(SelectSeq(there, LAMBDA f : dir[f].size = v))
             + sumBySize(values \ {v}, there, dir)

\* the sum of stats.size over the files of the sequence that exist
sumSizes(files, dir) ==
    LET there == SelectSeq(files, LAMBDA f : f \in DOMAIN dir)
    IN  sumBySize({ dir[there[i]].size : i \in 1..Len(there) }, there, dir)

\* if (files.length > MAX_FILES): the 200 oldest files of the listing are deleted
countPass(dir) ==
    LET files == readdirSync(dir)
    IN  IF Len(files) > MAX_FILES
        THEN unlinkAll(dir, SubSeq(sortByMtime(files, dir), 1, OLDEST_FILES))
        ELSE dir

\* the least k in lo..hi such that deleting the k oldest files leaves at most
\* `limit` bytes: the loop deletes fileStats[0..k-1] and breaks
RECURSIVE firstEnough(_, _, _, _, _, _)
firstEnough(sorted, dir, total, limit, lo, hi) ==
    IF lo >= hi THEN lo
    ELSE LET mid == (lo + hi) \div 2
         IN  IF total - sumSizes(SubSeq(sorted, 1, mid), dir) <= limit
             THEN firstEnough(sorted, dir, total, limit, lo, mid)
             ELSE firstEnough(sorted, dir, total, limit, mid + 1, hi)

\* the byte pass over the listing `files` taken before the count pass.  The
\* sum skips the files that statSync does not find; the second files.map has no
\* try/catch: a file of the listing that is gone throws, and the catch of
\* cleanupCache ends the sweep.
bytePass(files, dir) ==
    LET totalSize == sumSizes(files, dir)
        keep == ((MAX_CACHE_SIZE_MB * 8) \div 10) * MB
    IN  IF totalSize > MAX_CACHE_SIZE_MB * MB
        THEN IF \E i \in 1..Len(files) : files[i] \notin DOMAIN dir
             THEN dir
             ELSE LET sorted == sortByMtime(files, dir)
                      k == firstEnough(sorted, dir, totalSize, keep, 0, Len(sorted))
                  IN  unlinkAll(dir, SubSeq(sorted, 1, k))
        ELSE dir

cleanupCache(dir) == bytePass(readdirSync(dir), countPass(dir))

\* the renderer is loaded: CACHE_DIR exists, cleanupCache runs
ModuleLoad ==
    /\ ~loaded
    /\ loaded' = TRUE
    /\ cacheDir' = cleanupCache(cacheDir)
    /\ UNCHANGED << now, calls >>
    /\ UNCHANGED catalogVars
    /\ UNCHANGED renderVars
    /\ UNCHANGED updaterVars

\* the window is closed; the cache stays on disk
Quit ==
    /\ loaded
    /\ \A c \in Slots : calls[c].pc = "idle"
    /\ loaded' = FALSE
    /\ UNCHANGED << cacheDir, now, calls >>
    /\ UNCHANGED catalogVars
    /\ UNCHANGED renderVars
    /\ UNCHANGED updaterVars

-----------------------------------------------------------------------------
(* Sorting: getSortName and the comparator of sortAndRender.  A name is a   *)
(* string; its characters are its one-character substrings.                 *)

charAt(s, i) == SubSeq(s, i, i)

\* the position of character c in string s, 0 when it is absent
indexOf(s, c) ==
    IF \E i \in 1..Len(s) : charAt(s, i) = c
    THEN CHOOSE i \in 1..Len(s) : charAt(s, i) = c /\ \A j \in 1..(i - 1) : charAt(s, j) # c
    ELSE 0

UPPER == "ABCDEFGHIJKLMNOPQRSTUVWXYZ"
LOWER == "abcdefghijklmnopqrstuvwxyz"
DIGITS == "0123456789"
MARKS == "~^@"             \* stand for the characters U+2122, U+00AE, U+00A9

\* the characters of the universe that carry an accent, and their base letters
ACCENTED == "#"            \* stands for U+00E9, e with acute accent
UNACCENTED == "e"

IsSpace(c) == c = " "

lowerChar(c) == IF indexOf(UPPER, c) > 0 THEN charAt(LOWER, indexOf(UPPER, c)) ELSE c

RECURSIVE lowerCase(_)
lowerCase(s) == IF s = "" THEN "" ELSE lowerChar(charAt(s, 1)) \o lowerCase(SubSeq(s, 2, Len(s)))

\* /^(the|a|an|le|la|les|l'|un|une|des)\s+/i, alternatives in this order
articles == << "the", "a", "an", "le", "la", "les", "l'", "un", "une", "des" >>

\* the number of blanks of s from position i on
RECURSIVE spacesFrom(_, _)
spacesFrom(s, i) ==
    IF i <= Len(s) /\ IsSpace(charAt(s, i)) THEN 1 + spacesFrom(s, i + 1) ELSE 0

\* the length of the match of the articles pattern at the start of name, 0
\* when it does not match: an article, then at least one blank
articleMatch(name) ==
    LET matches == { k \in 1..Len(articles) :
                       /\ Len(name) > Len(articles[k])
                       /\ lowerCase(SubSeq(name, 1, Len(articles[k]))) = articles[k]
                       /\ IsSpace(charAt(name, Len(articles[k]) + 1)) }
    IN  IF matches = {} THEN 0
        ELSE LET k == CHOOSE m \in matches : \A n \in matches : m <= n
             IN  Len(articles[k]) + spacesFrom(name, Len(articles[k]) + 1)

\* .replace(/[\u2122\u00AE\u00A9]/g, ''): the trademark characters are removed
RECURSIVE removeMarks(_)
removeMarks(s) ==
    IF s = "" THEN ""
    ELSE IF indexOf(MARKS, charAt(s, 1)) > 0 THEN removeMarks(SubSeq(s, 2, Len(s)))
    ELSE charAt(s, 1) \o removeMarks(SubSeq(s, 2, Len(s)))

\* .replace(/\s+/g, ' '): a run of blanks becomes one blank
RECURSIVE collapseSpaces(_)
collapseSpaces(s) ==
    IF s = "" THEN ""
    ELSE IF IsSpace(charAt(s, 1))
         THEN " " \o collapseSpaces(SubSeq(s, 1 + spacesFrom(s, 1), Len(s)))
         ELSE charAt(s, 1) \o collapseSpaces(SubSeq(s, 2, Len(s)))

\* String.prototype.trim on a string whose runs of blanks are single blanks
trimBlanks(s) ==
    LET a == IF s # "" /\ IsSpace(charAt(s, 1)) THEN 2 ELSE 1
        b == IF Len(s) >= a /\ IsSpace(charAt(s, Len(s))) THEN Len(s) - 1 ELSE Len(s)
    IN  SubSeq(s, a, b)

getSortName(name) ==
    LET sortName == SubSeq(name, articleMatch(name) + 1, Len(name))
    IN  trimBlanks(collapseSpaces(removeMarks(sortName)))

\* Collation (locale 'fr', sensitivity 'base', numeric): a string is compared
\* as the sequence of the primary weights of its characters.  Blanks and
\* punctuation come first, then numbers, then letters; case and accents carry
\* no primary weight; a run of digits weighs as the number it writes.
PUNCTUATION == " _-:.'"
NUMBER_BASE == 100
LETTER_BASE == 100000

baseLetter(c) ==
    LET l == lowerChar(c)
    IN  IF indexOf(ACCENTED, l) > 0 THEN charAt(UNACCENTED, indexOf(ACCENTED, l)) ELSE l

RECURSIVE digitsFrom(_, _)
digitsFrom(s, i) ==
    IF i <= Len(s) /\ indexOf(DIGITS, charAt(s, i)) > 0 THEN 1 + digitsFrom(s, i + 1) ELSE 0

RECURSIVE numberOf(_)
numberOf(s) ==
    IF s = "" THEN 0
    ELSE 10 * numberOf(SubSeq(s, 1, Len(s) - 1)) + (indexOf(DIGITS, charAt(s, Len(s))) - 1)

RECURSIVE weights(_)
weights(s) ==
    IF s = "" THEN << >>
    ELSE LET c == baseLetter(charAt(s, 1))
             d == digitsFrom(s, 1)
         IN  IF d > 0
             THEN << NUMBER_BASE + numberOf(SubSeq(s, 1, d)) >> \o weights(SubSeq(s, d + 1, Len(s)))
             ELSE IF indexOf(LOWER, c) > 0
             THEN << LETTER_BASE + indexOf(LOWER, c) >> \o weights(SubSeq(s, 2, Len(s)))
             ELSE << indexOf(PUNCTUATION, c) >> \o weights(SubSeq(s, 2, Len(s)))

RECURSIVE compareWeights(_, _)
compareWeights(v, w) ==
    IF v = << >> THEN (IF w = << >> THEN 0 ELSE -1)
    ELSE IF w = << >> THEN 1
    ELSE IF Head(v) < Head(w) THEN -1
    ELSE IF Head(v) > Head(w) THEN 1
    ELSE compareWeights(Tail(v), Tail(w))

\* a.localeCompare(b, 'fr', { sensitivity: 'base', numeric: true })
localeCompare(a, b) == compareWeights(weights(a), weights(b))

\* the names of the model's games, and their sort keys computed once
KnownNames ==
    { "The Witcher", "A Quiet Place", "Zelda", "zelda" }
        \cup { "Game " \o charAt(DIGITS, i + 1) : i \in 1..9 }
        \cup { "Game 10", "Game 11" }

SortNames == [ n \in KnownNames |-> getSortName(n) ]

sortName(name) == IF name \in KnownNames THEN SortNames[name] ELSE getSortName(name)

SortKeys == [ n \in KnownNames |-> weights(SortNames[n]) ]

sortKey(name) ==
    IF name \in KnownNames THEN SortKeys[name] ELSE weights(getSortName(name))

LowerNames == [ n \in KnownNames |-> lowerCase(n) ]

lowerName(name) == IF name \in KnownNames THEN LowerNames[name] ELSE lowerCase(name)

\* variant of the comparator that ignores the sort direction
compareGames_AlwaysAscending(a, b, sortVal) ==
    compareWeights(sortKey(a.name), sortKey(b.name))

\* the comparator given to filtered.sort:
\* getSortName(x.name).localeCompare(getSortName(y.name), 'fr', ...)
compareGames(a, b, sortVal) ==
    IF startsWith(sortVal, "Z")
    THEN compareWeights(sortKey(b.name), sortKey(a.name))
    ELSE compareWeights(sortKey(a.name), sortKey(b.name))

\* Array.prototype.sort is stable: entry i comes before entry j when it
\* compares smaller, or compares equal and stands before j in the array
sort(games, sortVal) ==
    LET n == Len(games)
        before(i, j) ==
            \/ compareGames(games[i], games[j], sortVal) < 0
            \/ compareGames(games[i], games[j], sortVal) = 0 /\ i < j
        rank(i) == 1 + Cardinality({ j \in 1..n : before(j, i) })
    IN  [ k \in 1..n |-> games[CHOOSE i \in 1..n : rank(i) = k] ]

-----------------------------------------------------------------------------
(* The render scheduler: sortAndRender, renderGames, renderGamesWithProgress.*)
(* A pass is one call of a render function.  Time is the clock `now`; the    *)
(* clock advances by Frame, and a timer fires when it is due, the earliest    *)
(* one first.  fetchGameImage settles at a time of its own; the settling of   *)
(* the awaited image is a step.  The 15 s batch timeout is not a step:        *)
(* fetchGameImage(g, 3000) settles within its own 3 s race.                   *)

FrameMs == 50               \* the clock advances by this much
MaxFrames == 5
MaxPasses == 2

getFavorites == {}          \* localStorage 'favorites': none

\* String.prototype.includes
includes(s, part) ==
    \E i \in 1..(Len(s) - Len(part) + 1) : SubSeq(s, i, i + Len(part) - 1) = part

\* allGames.filter(...) of the debounce callback
filtered(games, filter, searchVal) ==
    SelectSeq(games, LAMBDA g :
        /\ IF filter = "all" THEN TRUE
           ELSE IF filter = "favorites" THEN g.appid \in getFavorites
           ELSE g.platform = filter
        /\ includes(lowerName(g.name), searchVal))

\* aborting: the pass found isRendering set when it started (it took the
\* branch that aborts the previous render and clears the card timers)
IdlePass == [kind |-> "none", visible |-> << >>, pc |-> "done",
             batchIndex |-> 0, resolved |-> 0, wake |-> 0, started |-> 0,
             aborting |-> FALSE]

PassIds == 1..MaxPasses

\* the entries of the batch a progress pass is working on
batchOf(pass) ==
    SubSeq(pass.visible, pass.batchIndex * batchSize + 1,
           IF (pass.batchIndex + 1) * batchSize < Len(pass.visible)
           THEN (pass.batchIndex + 1) * batchSize ELSE Len(pass.visible))

totalBatches(pass) == (Len(pass.visible) + batchSize - 1) \div batchSize

Card(g, p) == [game |-> g, pass |-> p]

\* card.getAttribute('data-appid'): the attribute is the string of g.appid
dataAppid(card) == TemplateText(card.game.appid)

\* addCardToContainer: the card is appended unless a card with the same
\* data-appid is in the container
addCardToContainer(cards, card) ==
    IF \E i \in 1..Len(cards) : dataAppid(cards[i]) = dataAppid(card)
    THEN cards
    ELSE Append(cards, card)

\* the deadlines of the pending timers
DueTimes ==
    (IF sortAndRenderTimer = NoTimer THEN {} ELSE { sortAndRenderTimer.due })
    \cup { pendingCardTimers[i].due : i \in 1..Len(pendingCardTimers) }
    \cup { passes[p].wake : p \in { q \in 1..Len(passes) : passes[q].pc = "paused" } }

\* a timer with deadline d is the next one to fire
IsDue(d) == d <= now /\ \A e \in DueTimes : d <= e

\* bound of the model: a request comes while its pass fits the budget
CanRequest ==
    /\ Len(passes) < MaxPasses
    /\ now + DEBOUNCE_MS <= StartTime + MaxFrames * FrameMs

\* setActiveFilter(filter): a click on a platform filter or a navigation entry
SetActiveFilter(filter) ==
    /\ CanRequest
    /\ activeFilter' = filter
    /\ sortAndRenderTimer' = sortAndRender(FALSE)
    /\ UNCHANGED << searchInput, sortSelect, isRendering, pendingCardTimers, container, passes >>
    /\ UNCHANGED << allGames, cacheDir, now, calls, loaded >>
    /\ UNCHANGED supervisorVars
    /\ UNCHANGED updaterVars

\* inp.oninput = sortAndRender: the handler receives the event as useProgressBar
SearchInput(value) ==
    /\ CanRequest
    /\ searchInput' = value
    /\ sortAndRenderTimer' = sortAndRender(TRUE)
    /\ UNCHANGED << activeFilter, sortSelect, isRendering, pendingCardTimers, container, passes >>
    /\ UNCHANGED << allGames, cacheDir, now, calls, loaded >>
    /\ UNCHANGED supervisorVars
    /\ UNCHANGED updaterVars

\* sel.onchange = sortAndRender
SortChange(value) ==
    /\ CanRequest
    /\ sortSelect' = value
    /\ sortAndRenderTimer' = sortAndRender(TRUE)
    /\ UNCHANGED << activeFilter, searchInput, isRendering, pendingCardTimers, container, passes >>
    /\ UNCHANGED << allGames, cacheDir, now, calls, loaded >>
    /\ UNCHANGED supervisorVars
    /\ UNCHANGED updaterVars

\* if (isRendering) { ...; pendingCardTimers.forEach(clearTimeout); pendingCardTimers = [] }
clearedTimers(rendering, cardTimers) == IF rendering THEN << >> ELSE cardTimers

\* the callback of the debounce timer: the catalog is filtered and sorted, and
\* renderGamesWithProgress or renderGames runs up to its first await
DebounceFires ==
    /\ sortAndRenderTimer # NoTimer
    /\ IsDue(sortAndRenderTimer.due)
    /\ Len(passes) < MaxPasses
    /\ \E shown \in { filtered(allGames, activeFilter, lowerCase(searchInput)) } :
       \E visible \in { sort(shown, IF sortSelect = "" THEN "AZ" ELSE sortSelect) } :
       LET kind == IF sortAndRenderTimer.useProgressBar \/ Len(visible) > PROGRESS_THRESHOLD
                   THEN "progress" ELSE "plain"
       IN  /\ pendingCardTimers' = clearedTimers(isRendering, pendingCardTimers)
           /\ container' = << >>
           /\ isRendering' = (visible # << >>)
           /\ passes' = Append(passes,
                  [IdlePass EXCEPT !.kind = kind, !.visible = visible,
                                   !.pc = IF visible = << >> THEN "done" ELSE "fetching",
                                   !.started = now, !.aborting = isRendering])
    /\ sortAndRenderTimer' = NoTimer
    /\ UNCHANGED << activeFilter, searchInput, sortSelect >>
    /\ UNCHANGED << allGames, cacheDir, now, calls, loaded >>
    /\ UNCHANGED supervisorVars
    /\ UNCHANGED updaterVars

\* renderGames: the awaited fetchGameImage settles, the card goes to the
\* fragment; after the last one the fragment is appended to the container
ImageSettles(p) ==
    /\ p \in 1..Len(passes)
    /\ passes[p].kind = "plain"
    /\ passes[p].pc = "fetching"
    /\ LET pass == passes[p]
           last == pass.resolved + 1 = Len(pass.visible)
       IN  /\ passes' = [passes EXCEPT ![p].resolved = @ + 1,
                                       ![p].pc = IF last THEN "done" ELSE "fetching"]
           /\ container' = IF last
                           THEN container \o [i \in 1..Len(pass.visible) |-> Card(pass.visible[i], p)]
                           ELSE container
           /\ isRendering' = IF last THEN FALSE ELSE isRendering
    /\ UNCHANGED << activeFilter, searchInput, sortSelect, pendingCardTimers, sortAndRenderTimer >>
    /\ UNCHANGED << allGames, cacheDir, now, calls, loaded >>
    /\ UNCHANGED supervisorVars
    /\ UNCHANGED updaterVars

\* renderGamesWithProgress: one fetchGameImage of the batch settles; with the
\* last one Promise.all resolves, the cards get their staggered timers, and
\* the pass pauses before the next batch or ends
BatchImageSettles(p) ==
    /\ p \in 1..Len(passes)
    /\ passes[p].kind = "progress"
    /\ passes[p].pc = "fetching"
    /\ LET pass == passes[p]
           batchGames == batchOf(pass)
           all == pass.resolved + 1 = Len(batchGames)
           lastBatch == pass.batchIndex = totalBatches(pass) - 1
       IN  /\ passes' = [passes EXCEPT
                  ![p].resolved = @ + 1,
                  ![p].pc = IF ~all THEN "fetching" ELSE IF lastBatch THEN "done" ELSE "paused",
                  ![p].wake = IF all /\ ~lastBatch THEN now + BATCH_PAUSE_MS ELSE @]
           /\ pendingCardTimers' =
                  IF all
                  THEN pendingCardTimers \o
                       [i \in 1..Len(batchGames) |->
                           [due |-> now + (i - 1) * CARD_STAGGER_MS,
                            card |-> Card(batchGames[i], p)]]
                  ELSE pendingCardTimers
           /\ isRendering' = IF all /\ lastBatch THEN FALSE ELSE isRendering
    /\ UNCHANGED << activeFilter, searchInput, sortSelect, container, sortAndRenderTimer >>
    /\ UNCHANGED << allGames, cacheDir, now, calls, loaded >>
    /\ UNCHANGED supervisorVars
    /\ UNCHANGED updaterVars

\* the pause between two batches is over: the next batch starts
PauseEnds(p) ==
    /\ p \in 1..Len(passes)
    /\ passes[p].pc = "paused"
    /\ IsDue(passes[p].wake)
    /\ passes' = [passes EXCEPT ![p].batchIndex = @ + 1, ![p].resolved = 0,
                                ![p].pc = "fetching"]
    /\ UNCHANGED << activeFilter, searchInput, sortSelect, isRendering,
                    pendingCardTimers, container, sortAndRenderTimer >>
    /\ UNCHANGED << allGames, cacheDir, now, calls, loaded >>
    /\ UNCHANGED supervisorVars
    /\ UNCHANGED updaterVars

\* the oldest of the card timers with the earliest deadline fires
CardTimerFires ==
    /\ pendingCardTimers # << >>
    /\ LET k == CHOOSE i \in 1..Len(pendingCardTimers) :
                   /\ \A j \in 1..Len(pendingCardTimers) :
                          pendingCardTimers[i].due <= pendingCardTimers[j].due
                   /\ \A j \in 1..(i - 1) :
                          pendingCardTimers[j].due > pendingCardTimers[i].due
       IN  /\ IsDue(pendingCardTimers[k].due)
           /\ container' = addCardToContainer(container, pendingCardTimers[k].card)
           /\ pendingCardTimers' = SubSeq(pendingCardTimers, 1, k - 1)
                                   \o SubSeq(pendingCardTimers, k + 1, Len(pendingCardTimers))
    /\ UNCHANGED << activeFilter, searchInput, sortSelect, isRendering, passes,
                    sortAndRenderTimer >>
    /\ UNCHANGED << allGames, cacheDir, now, calls, loaded >>
    /\ UNCHANGED supervisorVars
    /\ UNCHANGED updaterVars

\* time passes while no timer is due
Frame ==
    /\ now < StartTime + MaxFrames * FrameMs
    /\ \A d \in DueTimes : d > now
    /\ now' = now + FrameMs
    /\ UNCHANGED << cacheDir, calls, loaded >>
    /\ UNCHANGED catalogVars
    /\ UNCHANGED renderVars
    /\ UNCHANGED updaterVars

-----------------------------------------------------------------------------
(* Initial state: DOMContentLoaded has run, loadGames has read games.json   *)

loadGames(raw) == NormalizedGames(raw)

GamesJson == { << >>, << GameOf.a >>, << GameOf.a, GameOf.b >>, << GameOf.c, GameOf.c >> }

NoFiles == [f \in {} |-> [size |-> 0, mtime |-> 0]]

\* new GameHUBZUpdater(): the constructor's two flags, nothing asked yet
InitUpdater ==
    /\ isChecking = FALSE
    /\ updateAvailable = FALSE
    /\ awaiting = 0
    /\ offers = 0
    /\ downloading = FALSE
    /\ checkCalls = 0

\* the supervisor and the merge are idle
InitSupervisor ==
    /\ isScanning = FALSE
    /\ btnDisabled = FALSE
    /\ scanTimer = 0
    /\ timers = {}
    /\ resetTimers = 0
    /\ procs = << >>
    /\ commandIndex = << >>
    /\ toast = NoValue
    /\ session = 0
    /\ ended = FALSE
    /\ mpc = "idle"
    /\ batch = << >>

\* the view before any render: no filter, no search text, nothing shown
InitView ==
    /\ activeFilter = "all"
    /\ searchInput = ""
    /\ sortSelect = "AZ"
    /\ isRendering = FALSE
    /\ pendingCardTimers = << >>
    /\ container = << >>
    /\ passes = << >>

\* everything but the catalog: setActiveFilter('all') has called sortAndRender
InitIdle ==
    /\ InitSupervisor
    /\ InitView
    /\ InitUpdater
    /\ sortAndRenderTimer = [due |-> StartTime + DEBOUNCE_MS, useProgressBar |-> FALSE]

InitCatalog ==
    /\ allGames \in { loadGames(raw) : raw \in GamesJson }
    /\ InitIdle

Init ==
    /\ InitCatalog
    /\ cacheDir = NoFiles
    /\ now = StartTime
    /\ calls = [c \in Slots |-> IdleCall]
    /\ loaded = TRUE

\* the cache as a start-up finds it: the cover of game a missing, too small
\* or valid, next to the cover of some other game
OtherFile == "gog_7.jpg"

ResolveDirs ==
    { [f \in {OtherFile} |-> [size |-> MIN_IMAGE_SIZE + 1, mtime |-> m]] :
          m \in {StartTime - TickMs, StartTime} }
    \cup
    { [f \in {OtherFile, fileName(GameOf.a)} |->
          IF f = OtherFile THEN [size |-> MIN_IMAGE_SIZE + 1, mtime |-> m]
          ELSE [size |-> sz, mtime |-> StartTime - TickMs]] :
          m \in {StartTime - TickMs, StartTime},
          sz \in {MIN_IMAGE_SIZE - 1, MIN_IMAGE_SIZE, MIN_IMAGE_SIZE + 1} }

\* caches as a start-up finds them: n files of three ages, interleaved in the
\* listing or grouped, all small, all of 1 MB, or the oldest third of 1 MB
FileCounts == {0, 1, 600, 999, 1000, 1001, 1200, 1201, 1500}

SweepDirs ==
    { [f \in 1..n |->
         [ size  |-> CASE sizes = "small" -> 2 * MIN_IMAGE_SIZE
                       [] sizes = "large" -> MB
                       [] sizes = "mixed" -> IF f % 3 = 0 THEN MB ELSE 2 * MIN_IMAGE_SIZE,
           mtime |-> IF grouped
                     THEN StartTime - TickMs * (1 + ((3 * (f - 1)) \div (n + 1)))
                     ELSE StartTime - TickMs * (1 + (f % 3)) ]] :
          n \in FileCounts, sizes \in {"small", "large", "mixed"}, grouped \in BOOLEAN }

\* games.json for the render scheduler: a few titles with articles, two
\* titles that differ by case only
Titles ==
    [ w |-> Game("The Witcher", "steam", "10"),
      q |-> Game("A Quiet Place", "epic", "20"),
      z |-> Game("Zelda", "steam", "30"),
      y |-> Game("zelda", "epic", "40") ]

ShortCatalogs ==
    { << Titles.z, Titles.w, Titles.q >>,
      << Titles.y, Titles.q, Titles.z >> }

InitSchedule ==
    /\ InitIdle
    /\ allGames \in { loadGames(raw) : raw \in ShortCatalogs }
    /\ cacheDir = NoFiles
    /\ now = StartTime
    /\ calls = [c \in Slots |-> IdleCall]
    /\ loaded = TRUE

\* a catalog of more than one batch: "Game 1" .. "Game 9", appids 1 .. 9
LongCatalog ==
    [ i \in 1..(batchSize + 1) |->
        Game("Game " \o charAt(DIGITS, i + 1), "steam", charAt(DIGITS, i + 1)) ]

\* a games.json with two executables without appid and two store games
\* whose appids are the same string
SharedAppidCatalog ==
    << Game("The Witcher", "other", NoValue), Game("A Quiet Place", "other", NoValue),
       Game("Zelda", "steam", "30"), Game("zelda", "epic", "30") >>

\* a render request made 150 ms ago is due, from the search box or the sort
\* select (useProgressBar is the event) or from a filter button
InitRender ==
    /\ InitSupervisor
    /\ InitView
    /\ InitUpdater
    /\ sortAndRenderTimer \in { [due |-> StartTime, useProgressBar |-> b] : b \in BOOLEAN }
    /\ allGames \in { loadGames(LongCatalog), loadGames(SharedAppidCatalog) }
    /\ cacheDir = NoFiles
    /\ now = StartTime
    /\ calls = [c \in Slots |-> IdleCall]
    /\ loaded = TRUE

InitSweep ==
    /\ InitCatalog
    /\ allGames = << >>
    /\ cacheDir \in SweepDirs
    /\ now = StartTime
    /\ calls = [c \in Slots |-> IdleCall]
    /\ loaded = FALSE

InitResolve ==
    /\ InitCatalog
    /\ cacheDir \in ResolveDirs
    /\ now = StartTime
    /\ calls = [c \in Slots |-> IdleCall]
    /\ loaded = TRUE

-----------------------------------------------------------------------------
(* Specifications *)

\* the merge engine: arbitrary progress units reach appendNewGames
NextMerge ==
    \/ Click(TRUE, TRUE, << >>)
    \/ \E b \in Batches : ProgressUnit(b)
    \/ CallAppendNewGames
    \/ RepeatUnit
    \/ NextUnit

SpecMerge == Init /\ [][NextMerge]_vars

\* platform normalisation: one-record progress units with every platform value
PlatformInputs ==
    DOMAIN PLATFORM_ALIASES
        \cup { PLATFORM_ALIASES[k] : k \in DOMAIN PLATFORM_ALIASES }
        \cup { "steam", "Steam", " EGS ", "c", "b_c", NoValue }

NextPlatform ==
    \/ Click(TRUE, TRUE, << >>)
    \/ \E p \in PlatformInputs : ProgressUnit(<< Game("Foo", p, NoValue) >>)
    \/ CallAppendNewGames
    \/ RepeatUnit
    \/ NextUnit

SpecPlatform == Init /\ [][NextPlatform]_vars

\* cache keys: a scan that reports store games and executables without appid
KeyGames ==
    { GameOf.a, GameOf.b, GameOf.d, Game("qux", "egs", NoValue) }

NextKeys ==
    \/ Click(TRUE, TRUE, << >>)
    \/ \E b \in SeqsUpTo(KeyGames, MaxBatchLen) : ProgressUnit(b)
    \/ CallAppendNewGames
    \/ RepeatUnit
    \/ NextUnit

SpecKeys == Init /\ [][NextKeys]_vars

\* the debounce and the sort: a short catalog, every user request
Filters == {"all", "steam", "favorites"}
Searches == {"", "Z"}
Sorts == {"AZ", "ZA"}

NextSchedule ==
    \/ \E f \in Filters : SetActiveFilter(f)
    \/ \E v \in Searches : SearchInput(v)
    \/ \E v \in Sorts : SortChange(v)
    \/ DebounceFires
    \/ \E p \in PassIds : ImageSettles(p)
    \/ \E p \in PassIds : BatchImageSettles(p)
    \/ CardTimerFires
    \/ Frame

SpecSchedule == InitSchedule /\ [][NextSchedule]_vars

\* the event loop runs a timer that is due, and time passes
FairSchedule ==
    /\ WF_vars(DebounceFires)
    /\ WF_vars(CardTimerFires)
    /\ WF_vars(Frame)

SpecScheduleFair == SpecSchedule /\ FairSchedule

\* the render passes: a catalog of two batches, a second request at any time
NextRender ==
    \/ \E v \in Sorts : SortChange(v)
    \/ DebounceFires
    \/ \E p \in PassIds : ImageSettles(p)
    \/ \E p \in PassIds : BatchImageSettles(p)
    \/ \E p \in PassIds : PauseEnds(p)
    \/ CardTimerFires
    \/ Frame

SpecRender == InitRender /\ [][NextRender]_vars

\* the supervisor: every outcome of every candidate, output in one piece
ScanTexts == { Line(<< "{", "a", "}" >>) }

NextScan ==
    \/ \E x \in BOOLEAN, y \in BOOLEAN, out \in ScanTexts : Click(x, y, out)
    \/ \E p \in 1..MaxProcs : OnData(p, Unwritten(p))
    \/ \E p \in 1..MaxProcs, code \in {0, 1}, y \in BOOLEAN, out \in ScanTexts :
           Close(p, code, y, out)
    \/ \E p \in 1..MaxProcs, y \in BOOLEAN, out \in ScanTexts : ProcError(p, y, out)
    \/ \E t \in 1..MaxProcs : Timeout(t)
    \/ ResetUI

Spec == Init /\ [][NextScan]_vars

\* the view of a scan: the scanner reports one game and ends in any way
\* (exit code 0, another exit code with no fallback script, the safety
\* timeout), next to the debounced render
NextView ==
    \/ \E out \in ScanTexts : Click(TRUE, FALSE, out)
    \/ \E p \in 1..MaxProcs : OnData(p, Unwritten(p))
    \/ \E p \in 1..MaxProcs, code \in {0, 1} : Close(p, code, FALSE, << >>)
    \/ \E t \in 1..MaxProcs : Timeout(t)
    \/ ResetUI
    \/ DebounceFires
    \/ \E p \in PassIds : ImageSettles(p)
    \/ Frame

SpecView == Init /\ [][NextView]_vars

\* the protocol parser: one scanner at a time, any chunking of its output
ParseTexts ==
    { Line(<< "{", "a", "}" >>) \o Line(<< "{", "a", "b", "}" >>),
      Line(<< "{", "a", "}" >>) \o Line(<< "x", "}" >>) \o Line(<< "{", "b", "}" >>),
      Line(<< "n" >>) \o << "[", "i", "]", NL >> \o Line(<< "{", "c", "d", "}" >>),
      Line(<< "{" >>) \o Line(<< "{", "}" >>) \o PROGRESS \o << "{", "b" >>,
      Line(<< "{", "a", ACCENT_HEAD, ACCENT_TAIL, "}" >>) }

NextParse ==
    \/ \E out \in ParseTexts : Click(TRUE, TRUE, out)
    \/ \E p \in 1..MaxProcs, n \in 1..MaxChunk : OnData(p, n)
    \/ \E p \in 1..MaxProcs : Close(p, 0, TRUE, << >>)
    \/ ResetUI

SpecParse == Init /\ [][NextParse]_vars

\* records without name: a scanner reports a record that has no name field
\* ("u") next to good records, in the same progress line or in another one
NamelessTexts ==
    { Line(<< "{", "a", "u", "}" >>) \o Line(<< "{", "b", "}" >>),
      Line(<< "{", "u", "a", "}" >>) \o Line(<< "{", "a", "}" >>) }

NextNameless ==
    \/ \E out \in NamelessTexts : Click(TRUE, TRUE, out)
    \/ \E p \in 1..MaxProcs, n \in 1..MaxChunk : OnData(p, n)
    \/ \E p \in 1..MaxProcs : Close(p, 0, TRUE, << >>)
    \/ ResetUI

SpecNameless == Init /\ [][NextNameless]_vars

\* the line buffers of a fallback chain: a candidate writes the beginning of
\* a line or a whole progress line, and fails or is killed by the safety
\* timer; a data event delivers what the child has written
BufferTexts == { << "[", "x" >>, Line(<< "{", "a", "}" >>) }

NextBuffers ==
    \/ \E out \in BufferTexts : Click(TRUE, TRUE, out)
    \/ \E p \in 1..MaxProcs : OnData(p, Unwritten(p))
    \/ \E p \in 1..MaxProcs, out \in BufferTexts : Close(p, 1, TRUE, out)
    \/ \E t \in 1..MaxProcs : Timeout(t)
    \/ ResetUI

SpecBuffers == Init /\ [][NextBuffers]_vars

\* the image cache, one resolve at a time (the loop of a render pass awaits
\* each fetchGameImage before it calls the next)
DownloadSizes == {MIN_IMAGE_SIZE, MIN_IMAGE_SIZE + 1}

Responses == {"hit", "empty", "nosuccess", "error"}

NextResolve ==
    \/ \E g \in ReportedGames, ok \in BOOLEAN :
           FetchGameImage(1, [g EXCEPT !.platform = normalizePlatform(g.platform)], ok)
    \/ \E outcome \in Responses : SearchResponse(1, outcome)
    \/ \E outcome \in Responses : GridResponse(1, outcome)
    \/ \E size \in DownloadSizes : DownloadEnds(1, size)
    \/ DownloadFails(1)
    \/ BackoffElapsed(1)
    \/ TimeoutFires(1)
    \/ CallEnds(1)
    \/ Tick

SpecResolve == InitResolve /\ [][NextResolve]_vars

\* two resolves of cards that are loaded together (the fetchGameImage calls
\* of a batch, or of two passes), with every request answered and every
\* body a valid image
NextRace ==
    \/ \E c \in Slots, g \in ReportedGames :
           FetchGameImage(c, [g EXCEPT !.platform = normalizePlatform(g.platform)], TRUE)
    \/ \E c \in Slots : SearchResponse(c, "hit")
    \/ \E c \in Slots : GridResponse(c, "hit")
    \/ \E c \in Slots : DownloadEnds(c, MIN_IMAGE_SIZE + 1)
    \/ \E c \in Slots : CallEnds(c)

SpecRace == InitResolve /\ [][NextRace]_vars

\* the sweep: the app is started and closed over a cache left on disk
NextSweep ==
    \/ ModuleLoad
    \/ Quit

SpecSweep == InitSweep /\ [][NextSweep]_vars

(***************************************************************************)
(* The updater of the main process (src/ui/updater.js).  main.js builds    *)
(* one GameHUBZUpdater; the menu item, the 'check-for-updates' IPC handler *)
(* and the two timers of enableAutoCheck call its checkForUpdates.  The    *)
(* autoUpdater object is electron-updater's: its checkForUpdates emits     *)
(* 'checking-for-update' before it returns its promise, hands a call made  *)
(* during a check the promise of that check, and emits exactly one of      *)
(* 'update-available', 'update-not-available' and 'error' when the check   *)
(* ends; its downloadUpdate emits 'error' when the download fails.         *)
(***************************************************************************)
MaxCheckCalls == 4

\* the first argument of checkForUpdates: true from the menu and from the IPC
\* handler, false from the timers of enableAutoCheck
ShowNoUpdateDialog == BOOLEAN

\* the answers to the "update available" dialog: download, later, release notes
DialogResponses == 0..2

\* checkForUpdates(showNoUpdateDialog): returns at once while isChecking is
\* set, otherwise awaits autoUpdater.checkForUpdates(), whose
\* 'checking-for-update' handler sets the flag when it starts a check
CheckForUpdates(showNoUpdateDialog) ==
    /\ checkCalls < MaxCheckCalls
    /\ checkCalls' = checkCalls + 1
    /\ IF isChecking
       THEN UNCHANGED << isChecking, awaiting >>
       ELSE /\ awaiting' = awaiting + 1
            /\ isChecking' = IF awaiting = 0 THEN TRUE ELSE isChecking
    /\ UNCHANGED << updateAvailable, offers, downloading >>
    /\ UNCHANGED catalogVars
    /\ UNCHANGED cacheVars
    /\ UNCHANGED renderVars

\* 'update-available': the check ends, every waiting call gets its result
UpdateAvailable ==
    /\ awaiting > 0
    /\ updateAvailable' = TRUE
    /\ isChecking' = FALSE
    /\ offers' = offers + 1
    /\ awaiting' = 0
    /\ UNCHANGED << downloading, checkCalls >>
    /\ UNCHANGED catalogVars
    /\ UNCHANGED cacheVars
    /\ UNCHANGED renderVars

\* 'update-not-available'
UpdateNotAvailable ==
    /\ awaiting > 0
    /\ updateAvailable' = FALSE
    /\ isChecking' = FALSE
    /\ awaiting' = 0
    /\ UNCHANGED << offers, downloading, checkCalls >>
    /\ UNCHANGED catalogVars
    /\ UNCHANGED cacheVars
    /\ UNCHANGED renderVars

\* 'error' raised by a check: the promise of the check is rejected
CheckError ==
    /\ awaiting > 0
    /\ isChecking' = FALSE
    /\ awaiting' = 0
    /\ UNCHANGED << updateAvailable, offers, downloading, checkCalls >>
    /\ UNCHANGED catalogVars
    /\ UNCHANGED cacheVars
    /\ UNCHANGED renderVars

\* the user answers an "update available" dialog; answer 0 is
\* downloadAndInstall, which calls autoUpdater.downloadUpdate()
DialogResponse(response) ==
    /\ offers > 0
    /\ offers' = offers - 1
    /\ downloading' = IF response = 0 THEN TRUE ELSE downloading
    /\ UNCHANGED << isChecking, updateAvailable, awaiting, checkCalls >>
    /\ UNCHANGED catalogVars
    /\ UNCHANGED cacheVars
    /\ UNCHANGED renderVars

\* 'error' raised by the download: the same handler clears isChecking
DownloadError ==
    /\ downloading
    /\ downloading' = FALSE
    /\ isChecking' = FALSE
    /\ UNCHANGED << updateAvailable, awaiting, offers, checkCalls >>
    /\ UNCHANGED catalogVars
    /\ UNCHANGED cacheVars
    /\ UNCHANGED renderVars

\* 'update-downloaded'
UpdateDownloaded ==
    /\ downloading
    /\ downloading' = FALSE
    /\ UNCHANGED << isChecking, updateAvailable, awaiting, offers, checkCalls >>
    /\ UNCHANGED catalogVars
    /\ UNCHANGED cacheVars
    /\ UNCHANGED renderVars

NextUpdater ==
    \/ \E showNoUpdateDialog \in ShowNoUpdateDialog : CheckForUpdates(showNoUpdateDialog)
    \/ UpdateAvailable
    \/ UpdateNotAvailable
    \/ CheckError
    \/ \E response \in DialogResponses : DialogResponse(response)
    \/ DownloadError
    \/ UpdateDownloaded

SpecUpdater == Init /\ [][NextUpdater]_vars

-----------------------------------------------------------------------------
(* Properties of the merge engine (SpecMerge) *)

SameIdentity(g, h) == g.appid # NoValue /\ g.appid = h.appid

SameNameAndPlatform(g, h) ==
    toLowerCase(g.name) = toLowerCase(h.name) /\ g.platform = h.platform

\* C1: after the reset of a scan start, the catalog never holds two entries
\* with the same non-empty appid, nor two entries with the same (lowercased
\* name, normalized platform) pair, however the records are batched.
C1_NoDuplicateEntries ==
    session > 0 =>
        \A i, j \in 1..Len(allGames) :
            i < j => /\ ~SameIdentity(allGames[i], allGames[j])
                     /\ ~SameNameAndPlatform(allGames[i], allGames[j])

\* C2: merging the batch that was just merged once more appends nothing: the
\* catalog (contents and order) is the one the first merge left.
C2_MergeIdempotent ==
    [][ mpc = "recall" => allGames' = allGames ]_vars

C2_Witness_MergedTwice ==
    /\ mpc = "redone"
    /\ Len(batch) = 2
    /\ Len(allGames) >= 2

\* C3: a merge keeps the old catalog as a prefix of the new one and appends
\* accepted records of the batch in their order of arrival; the catalog loses
\* entries only in the reset performed by an accepted click.
C3_AppendOnlyInArrivalOrder ==
    [][ /\ mpc \in {"call", "recall"} =>
            /\ IsPrefix(allGames, allGames')
            /\ IsSubseq(SubSeq(allGames', Len(allGames) + 1, Len(allGames')),
                        NormalizedGames(batch))
        /\ ~IsPrefix(allGames, allGames') =>
            /\ session' = session + 1
            /\ allGames' = << >> ]_vars

C3_Witness_AppendedToCatalog ==
    /\ mpc = "done"
    /\ Len(batch) = 1
    /\ Len(allGames) = 3
    /\ allGames[3] = NormalizedGames(batch)[1]

\* the entries a merge step appends
Appended == SubSeq(allGames', Len(allGames) + 1, Len(allGames'))

\* the catalog holds an entry with the identity or the (name, platform) of g
InCatalog(g, games) ==
    \E i \in 1..Len(games) :
        SameIdentity(g, games[i]) \/ SameNameAndPlatform(g, games[i])

\* C25: a merge that accepts records starts, in the same step, a
\* fetchGameImage call (an image warm-up) for an entry it accepted.
C25_WarmUpForAcceptedEntries ==
    [][ (mpc = "call" /\ Len(allGames') > Len(allGames)) =>
            \E c \in Slots :
                /\ calls'[c] # calls[c]
                /\ calls'[c].pc # "idle"
                /\ \E k \in 1..Len(Appended) : calls'[c].game = Appended[k] ]_vars

\* C26: a merge rejects a record exactly when the catalog holds an entry with
\* the same non-empty appid or with the same (lowercased name, normalized
\* platform) pair; every other record of the batch is appended, whatever
\* characters its name and its platform contain.
C26_RejectsExactlyCatalogDuplicates ==
    [][ mpc = "call" =>
            allGames' = allGames \o SelectSeq(NormalizedGames(batch),
                                              LAMBDA g : ~InCatalog(g, allGames)) ]_vars

-----------------------------------------------------------------------------
(* Properties of the platform normalisation (SpecPlatform) *)

\* the reading of "alias -> canonical tag, anything else unchanged"
AliasOrUnchanged(p) ==
    IF p \in DOMAIN PLATFORM_ALIASES THEN PLATFORM_ALIASES[p] ELSE p

\* C30 as stated: the stored platform of an accepted entry is the canonical
\* tag when the reported value is a known alias, and the reported value
\* itself, unchanged, when it is not.
C30_UnknownPassesUnchanged ==
    [][ mpc = "call" =>
            \A k \in 1..Len(Appended) :
                \E i \in 1..Len(batch) :
                    Appended[k] = [ batch[i] EXCEPT !.platform = AliasOrUnchanged(@) ] ]_vars

\* C30 (amended): the reported value is lower-cased and trimmed first; the
\* stored platform of an accepted entry is "all" when no platform was
\* reported, the canonical tag when the lower-cased, trimmed value is a known
\* alias, and the lower-cased, trimmed value itself otherwise.
C30_StoredPlatformIsCanonical ==
    [][ mpc = "call" =>
            \A k \in 1..Len(Appended) :
                \E i \in 1..Len(batch) :
                    LET reported == batch[i].platform
                        key == trim(toLowerCase(reported))
                        stored == Appended[k].platform
                    IN  /\ Appended[k].name = batch[i].name
                        /\ Appended[k].appid = batch[i].appid
                        /\ reported = NoValue => stored = "all"
                        /\ (reported # NoValue /\ key \in DOMAIN PLATFORM_ALIASES)
                               => stored = PLATFORM_ALIASES[key]
                        /\ (reported # NoValue /\ key \notin DOMAIN PLATFORM_ALIASES)
                               => stored = key ]_vars

C30_Witness_PaddedAliasStored ==
    /\ mpc = "done"
    /\ Len(batch) = 1
    /\ batch[1].platform = " EGS "
    /\ Len(allGames) >= 1
    /\ allGames[Len(allGames)] = Game("Foo", "epic", NoValue)

-----------------------------------------------------------------------------
(* Properties of the scan supervisor (Spec) *)

\* children that run: spawned, not killed, not closed, no failed spawn
Alive == { p \in Pids : procs[p].st = "alive" }

\* C4: at most one scan session is active: two scanner children are never
\* alive together, and while a child is alive the start button takes no click.
C4_OneSessionAtATime ==
    /\ Cardinality(Alive) <= 1
    /\ Alive # {} => btnDisabled

\* C5: the kill of the safety timer ends the session: no fallback candidate is
\* spawned because the killed child closed, and no child runs once the
\* session has ended and the UI is idle again.
C5_TimeoutEndsSession ==
    /\ \A p \in Pids : procs[p].cause # "kill"
    /\ (ended /\ ~isScanning /\ toast = "Analyse interrompue (timeout)") => Alive = {}

\* C6: one safety timer for the whole fallback chain: at most one is pending.
C6_SingleScanTimer ==
    Cardinality(timers) <= 1

\* C7: once a session has reached its terminal transition (endScan), no
\* safety timer is pending, and a pending timer was always armed in the
\* current session.
C7_TimersDisarmedAtEnd ==
    /\ ended => timers = {}
    /\ \A t \in timers : procs[t].session = session

\* C8: the fallback commands of one tryPythonFallback run are spawned in the
\* order python, py, python3, each at most once, and a candidate is spawned
\* only after the previous one has failed: two candidates of one chain never
\* run together.
CommandRank(cmd) == CHOOSE i \in 1..Len(pythonCommands) : pythonCommands[i] = cmd

C8_FallbackInOrder ==
    \A p, q \in Pids :
        (p < q /\ procs[p].chain # 0 /\ procs[p].chain = procs[q].chain) =>
            /\ CommandRank(procs[p].cmd) < CommandRank(procs[q].cmd)
            /\ ~(p \in Alive /\ q \in Alive)

\* C9: once a started session is back to idle (scanning flag false, button
\* enabled, no UI reset pending) nothing of it remains: no child process, no
\* safety timer.
C9_IdleLeavesNothing ==
    (session > 0 /\ ~isScanning /\ ~btnDisabled /\ resetTimers = 0) =>
        /\ Alive = {}
        /\ timers = {}
        /\ scanTimer = 0

\* C12: an accepted click empties the catalog, and from then on every entry
\* that enters the catalog was reported by a scanner process of the session
\* that click started.
C12_OnlyThisSessionsEntries ==
    [][ /\ session' = session + 1 => allGames' = << >>
        /\ \A p \in Pids :
              ( /\ Len(procs') = Len(procs)
                /\ procs'[p].pos > procs[p].pos
                /\ allGames' # allGames ) => procs[p].session = session ]_vars

\* C13: the catalog is never reset while a scan is in flight: in every step
\* taken while a scanner child is alive the catalog only grows (the old
\* catalog is a prefix of the new one).
C13_NoResetDuringScan ==
    [][ Alive # {} => IsPrefix(allGames, allGames') ]_vars

-----------------------------------------------------------------------------
(* Properties of the protocol parser (SpecParse) *)

\* the games arrays of the lines that parse as progress units, in order
RECURSIVE ValidBatches(_)
ValidBatches(lines) ==
    IF lines = << >> THEN << >>
    ELSE IF ParsesAsProgress(Head(lines))
         THEN << JSONParse(substring(Head(lines), Len(PROGRESS))).games >>
              \o ValidBatches(Tail(lines))
         ELSE ValidBatches(Tail(lines))

RECURSIVE MergeAll(_, _)
MergeAll(games, batches) ==
    IF batches = << >> THEN games
    ELSE MergeAll(AppendNewGames(games, Head(batches)), Tail(batches))

\* C10: a data event leaves the catalog as the merge, in order, of the valid
\* progress units among its complete lines, whatever malformed PROGRESS: lines
\* stand between them; it changes neither the scanning state, nor the timers,
\* nor the process state, and leaves the unterminated tail in the buffer.
C10_MalformedLineDropped ==
    [][ \A p \in Pids :
          (Len(procs') = Len(procs) /\ procs'[p].pos > procs[p].pos) =>
            LET text  == toString(SubSeq(procs[p].out, procs[p].pos + 1, procs'[p].pos))
                split == Split(procs[p].outputBuffer \o text, << >>)
                lines == SubSeq(split, 1, Len(split) - 1)
            IN  /\ allGames' = MergeAll(allGames, ValidBatches(lines))
                /\ procs'[p].outputBuffer = split[Len(split)]
                /\ procs'[p].st = procs[p].st
                /\ UNCHANGED << isScanning, btnDisabled, scanTimer, timers,
                                resetTimers, ended, session >> ]_vars

\* a malformed line was dropped and the valid line after it was merged
C10_Witness_LaterLineMerged ==
    \E p \in Pids :
        /\ procs[p].dropped
        /\ procs[p].out = Line(<< "{", "a", "}" >>) \o Line(<< "x", "}" >>)
                          \o Line(<< "{", "b", "}" >>)
        /\ procs[p].pos = Len(procs[p].out)
        /\ allGames = NormalizedGames(<< GameOf.a, GameOf.b >>)

\* what one data event carrying everything p has written so far hands over
WrittenText(p) == toString(SubSeq(procs[p].out, 1, procs[p].pos))

\* C11: the lines handed to the parser and the resulting catalog do not depend
\* on how stdout was cut into chunks: at every moment the catalog is the one
\* that a single chunk holding all the bytes written so far produces from the
\* empty catalog of the scan start, and the buffer holds its unterminated tail.
C11_SameForEveryChunking ==
    \A p \in Pids :
        (p = Len(procs) /\ procs[p].session = session) =>
            LET split == Split(WrittenText(p), << >>)
            IN  /\ procs[p].outputBuffer = split[Len(split)]
                /\ allGames = ProcessLines(<< >>, SubSeq(split, 1, Len(split) - 1))

-----------------------------------------------------------------------------
(* Properties of the image cache (SpecResolve) *)

CachePath(call) == pathToFileURL(fileName(call.game))

\* the step in which fetchGameImage is called in slot c
CallStarts(c) == calls[c].pc = "idle" /\ calls'[c].pc # "idle"

\* C14: resolve never rejects: its result is the entry's cache path or the
\* placeholder, and it is the placeholder when fetchImageWithRetry threw and
\* when the call was settled (by the timeout) while the fetch was still going on.
C14_ResolveNeverFails ==
    \A c \in Slots :
        LET call == calls[c]
        IN  /\ call.result \in {"none", "pending", PLACEHOLDER, CachePath(call)}
            /\ call.result = "none" <=> call.pc = "idle"
            /\ call.pc = "threw" => call.result = PLACEHOLDER
            /\ (Running(c) /\ call.result # "pending") => call.result = PLACEHOLDER

\* the third attempt failed before the timeout: the error was caught
C14_Witness_ErrorCaught ==
    \E c \in Slots :
        /\ calls[c].pc = "threw"
        /\ now < calls[c].deadline
        /\ calls[c].result = PLACEHOLDER

C16_HitTouchesAndReturns ==
    [][ \A c \in Slots :
          LET name == fileName(calls'[c].game)
          IN  ( /\ CallStarts(c)
                /\ name \in DOMAIN cacheDir
                /\ cacheDir[name].size > MIN_IMAGE_SIZE ) =>
                  /\ calls'[c].result = pathToFileURL(name)
                  /\ calls'[c].requests = 0
                  /\ name \in DOMAIN cacheDir'
                  /\ cacheDir'[name].size = cacheDir[name].size
                  /\ cacheDir'[name].mtime = now
                  /\ \A f \in DOMAIN cacheDir' :
                        cacheDir'[f].mtime <= cacheDir'[name].mtime ]_vars

\* C17: a call makes at most 3 attempts; a new attempt starts only from the
\* retry delay, which is entered only when a step of the running attempt
\* failed and lasts 1000 ms; when the third attempt fails the call's result is
\* the placeholder.
C17_AtMostThreeAttempts ==
    [][ \A c \in Slots :
          /\ calls'[c].attempt <= maxRetries
          /\ calls'[c].requests <= 3 * (maxRetries + 1)
          /\ (calls[c].pc # "backoff" /\ calls'[c].pc = "backoff") =>
                /\ calls[c].pc \in {"search", "grid", "download"}
                /\ calls'[c].wake = now + 1000
          /\ (calls'[c].attempt # calls[c].attempt /\ ~CallStarts(c)
                                                    /\ calls'[c].pc # "idle") =>
                /\ calls[c].pc = "backoff"
                /\ calls'[c].attempt = calls[c].attempt + 1
                /\ now >= calls[c].wake
          /\ calls'[c].pc = "threw" =>
                /\ calls'[c].attempt = maxRetries
                /\ calls'[c].result = PLACEHOLDER ]_vars

C17_Witness_ThirdAttemptFailed ==
    \E c \in Slots :
        /\ calls[c].pc = "threw"
        /\ calls[c].attempt = 2
        /\ now = StartTime + 2 * TickMs

\* C18: when the search answers with an empty list or with success: false,
\* the call returns the placeholder in that very step: it never enters the
\* retry delay and sends no further request.
C18_NotFoundNoRetry ==
    [][ \A c \in Slots :
          calls'[c].search \in {"empty", "nosuccess"} =>
              /\ calls'[c].pc = "returned"
              /\ calls'[c].result = PLACEHOLDER
              /\ calls'[c].attempt = calls[c].attempt
              /\ calls'[c].requests = calls[c].requests ]_vars

C18_Witness_FirstAttemptNotFound ==
    \E c \in Slots :
        /\ calls[c].search = "empty"
        /\ calls[c].attempt = 0
        /\ calls[c].result = PLACEHOLDER
        /\ now = StartTime

-----------------------------------------------------------------------------
(* Properties of the sweep (SpecSweep) *)

FileCount(dir) == Cardinality(DOMAIN dir)

TotalSize(dir) == sumSizes(readdirSync(dir), dir)

\* C19: a sweep that finds more than MAX_FILES files leaves MAX_FILES - 200 of
\* them, the most recent ones, and whatever it finds it leaves at most
\* MAX_FILES files.
C19_CountWithinCeiling ==
    [][ (~loaded /\ loaded') =>
            /\ FileCount(cacheDir') <= MAX_FILES
            /\ FileCount(cacheDir) > MAX_FILES =>
                  FileCount(cacheDir') <= MAX_FILES - 200 ]_vars

\* C20: when the files left by the count pass total more than the byte
\* ceiling, the sweep leaves at most 80% of the ceiling, whether or not the
\* count pass deleted files.
C20_BytesWithinBudget ==
    [][ (~loaded /\ loaded') =>
            (TotalSize(countPass(cacheDir)) > MAX_CACHE_SIZE_MB * MB =>
                TotalSize(cacheDir') <= ((MAX_CACHE_SIZE_MB * 8) \div 10) * MB) ]_vars

\* the last-access times of a set of files
Mtimes(names, dir) == { dir[f].mtime : f \in names }

\* what a pass deleted is at least as old as everything it kept
OldestFirst(before, after) ==
    \A d \in Mtimes(DOMAIN before \ DOMAIN after, before) :
        \A k \in Mtimes(DOMAIN after, before) : d <= k

-----------------------------------------------------------------------------
(* Properties of the render scheduler: debounce and sort (SpecSchedule) *)

Reverse(list) == [i \in 1..Len(list) |-> list[Len(list) + 1 - i]]

NamesOf(list) == [i \in 1..Len(list) |-> list[i].name]

\* what the debounce callback would render in this state
FilteredNow == filtered(allGames, activeFilter, lowerCase(searchInput))

SortValNow == IF sortSelect = "" THEN "AZ" ELSE sortSelect

PassStarts == Len(passes') = Len(passes) + 1

\* a step that calls sortAndRender
Request ==
    \/ \E f \in Filters : SetActiveFilter(f)
    \/ \E v \in Searches : SearchInput(v)
    \/ \E v \in Sorts : SortChange(v)

\* C21: every call of sortAndRender re-arms the one debounce timer to 150 ms
\* after the call (and nothing else arms it), so the calls of a burst
\* collapse: a pass starts only when
\* that timer fires, not before 150 ms after the last call and before the
\* clock moves on; it renders the catalog filtered and sorted with the
\* filter, search and sort values of that moment; one firing starts one pass
\* and leaves no timer; and an armed timer eventually fires.
C21_DebounceCollapsesBursts ==
    /\ [][ /\ Request => sortAndRenderTimer'.due = now + DEBOUNCE_MS
           /\ sortAndRenderTimer' \notin { sortAndRenderTimer, NoTimer } => Request
           /\ Len(passes') \in { Len(passes), Len(passes) + 1 }
           /\ PassStarts =>
                 /\ sortAndRenderTimer # NoTimer
                 /\ sortAndRenderTimer.due <= now
                 /\ now < sortAndRenderTimer.due + FrameMs
                 /\ sortAndRenderTimer' = NoTimer
                 /\ passes'[Len(passes')].visible = sort(FilteredNow, SortValNow)
                 /\ passes'[Len(passes')].started = now ]_vars
    /\ (sortAndRenderTimer # NoTimer) ~> (sortAndRenderTimer = NoTimer)

\* two requests, the second one later than the first and with the sort order
\* changed, gave one pass, which shows the descending order
C21_Witness_BurstGaveOnePass ==
    /\ Len(passes) = 1
    /\ passes[1].started > StartTime + DEBOUNCE_MS
    /\ sortAndRenderTimer = NoTimer
    /\ sortSelect = "ZA"
    /\ Len(passes[1].visible) = 3
    /\ passes[1].visible[1].name \in {"Zelda", "zelda"}

\* the order of the example: [A] Quiet Place, [The] Witcher, Zelda
ExampleInOrder(list) ==
    { list[i] : i \in 1..Len(list) } = { Titles.w, Titles.q, Titles.z } =>
        /\ NamesOf(sort(list, "AZ")) = << "A Quiet Place", "The Witcher", "Zelda" >>
        /\ NamesOf(sort(list, "ZA")) = << "Zelda", "The Witcher", "A Quiet Place" >>

\* a pass renders its entries in one direction of the comparator
PassesAreSorted ==
    \A p \in 1..Len(passes) :
        LET v == passes[p].visible
        IN  \/ \A i, j \in 1..Len(v) : i < j => compareGames(v[i], v[j], "AZ") <= 0
            \/ \A i, j \in 1..Len(v) : i < j => compareGames(v[i], v[j], "ZA") <= 0

\* C24 as stated: the example comes out in the stated orders, and whenever
\* the sort names (getSortName) of the entries are pairwise distinct strings
\* the descending order is the reverse of the ascending order.
C24_DescendingIsReverse ==
    /\ ExampleInOrder(FilteredNow)
    /\ PassesAreSorted
    /\ (\A i, j \in 1..Len(FilteredNow) :
            i # j => sortName(FilteredNow[i].name) # sortName(FilteredNow[j].name))
          => sort(FilteredNow, "ZA") = Reverse(sort(FilteredNow, "AZ"))

\* C24 (amended): the example comes out in the stated orders, and whenever
\* no two entries have sort names that the comparison takes as equal (it
\* ignores case and accents) the descending order is the reverse of the
\* ascending order.
C24_DescendingIsReverseUpToTies ==
    /\ ExampleInOrder(FilteredNow)
    /\ PassesAreSorted
    /\ (\A i, j \in 1..Len(FilteredNow) :
            i # j => compareGames(FilteredNow[i], FilteredNow[j], "AZ") # 0)
          => sort(FilteredNow, "ZA") = Reverse(sort(FilteredNow, "AZ"))

\* a pass rendered the three titles of the example in descending order
C24_Witness_ExampleDescending ==
    \E p \in 1..Len(passes) :
        NamesOf(passes[p].visible) = << "Zelda", "The Witcher", "A Quiet Place" >>

-----------------------------------------------------------------------------
(* Properties of the render passes (SpecRender) *)

GamesOf(cards) == [i \in 1..Len(cards) |-> cards[i].game]

Active == { p \in 1..Len(passes) : passes[p].pc # "done" }

\* the fetchGameImage calls of a pass that have not settled
Outstanding(p) ==
    IF passes[p].pc # "fetching" THEN 0
    ELSE IF passes[p].kind = "plain" THEN 1
    ELSE Len(batchOf(passes[p])) - passes[p].resolved

RECURSIVE SumOutstanding(_)
SumOutstanding(n) == IF n = 0 THEN 0 ELSE Outstanding(n) + SumOutstanding(n - 1)

\* C22: at most one render pass is active at a time, and the container never
\* holds cards of two different passes.
C22_OnePassAtATime ==
    /\ Cardinality(Active) <= 1
    /\ \A i, j \in 1..Len(container) : container[i].pass = container[j].pass

\* C23: a pass that no other pass has superseded delivers its entries in
\* their order: the container always holds the first entries of the pass, in
\* order, and all of them once the pass is complete and its card timers have
\* fired.
C23_DeliveredInComparatorOrder ==
    Len(passes) = 1 =>
        /\ IsPrefix(GamesOf(container), passes[1].visible)
        /\ (passes[1].pc = "done" /\ pendingCardTimers = << >>)
              => GamesOf(container) = passes[1].visible

\* C27: at any moment at most 8 fetchGameImage calls issued by the render
\* functions are outstanding.
C27_AtMostEightOutstanding ==
    SumOutstanding(Len(passes)) <= batchSize

-----------------------------------------------------------------------------
(* Properties of the view of a scan (SpecView) *)

Shown == { container[i].game : i \in 1..Len(container) }

\* C29: once a session has ended, in whatever way, every merged entry is
\* shown, or a render that will show it is on its way: a debounced render
\* request is pending or a render pass is running.
C29_RenderFollowsEndedScan ==
    (ended /\ \E i \in 1..Len(allGames) : allGames[i] \notin Shown)
        => (sortAndRenderTimer # NoTimer \/ Active # {})

-----------------------------------------------------------------------------
(* The fallback chain under double delivery (Spec) *)

\* the processes spawned because process p failed
ChildrenOf(p) == { q \in Pids : procs[q].parent = p }

\* C31: the failure of one candidate advances the fallback chain exactly
\* once, also when 'error' and then 'close' with a non-zero code arrive for
\* the same process: one failed process is the cause of at most one spawn,
\* and the commandIndex of a chain never exceeds the number of its
\* candidates that have failed.
C31_OneAdvancePerFailure ==
    /\ \A p \in Pids : Cardinality(ChildrenOf(p)) <= 1
    /\ \A c \in 1..Len(commandIndex) :
           commandIndex[c] <=
               Cardinality({ p \in Pids : procs[p].chain = c /\ procs[p].st # "alive" })

-----------------------------------------------------------------------------
(* Properties of concurrent resolves (SpecRace) and of the cache hit *)

\* the step in which the call in slot c gets its cache path as its result
ReturnsPath(c) ==
    /\ calls'[c].result # calls[c].result
    /\ calls'[c].result = CachePath(calls'[c])

\* C32: whenever resolve returns a path other than the placeholder, a file
\* above the minimum size exists at that path at that moment, for a fresh
\* download and under every interleaving of resolves of the same key.
C32_ReturnedPathHoldsValidFile ==
    [][ \A c \in Slots :
          ReturnsPath(c) =>
              /\ fileName(calls'[c].game) \in DOMAIN cacheDir'
              /\ cacheDir'[fileName(calls'[c].game)].size > MIN_IMAGE_SIZE ]_vars

\* C36: resolve never deletes a valid cache file: a file above the threshold
\* at the key path when resolve is called is still there, with the same
\* size, after the call's first step and until the call has its result,
\* also when updating its modification time fails.
C36_ValidFileSurvivesResolve ==
    [][ \A c \in Slots :
          LET name == fileName(calls'[c].game)
          IN  ( /\ CallStarts(c)
                /\ name \in DOMAIN cacheDir
                /\ cacheDir[name].size > MIN_IMAGE_SIZE ) =>
                  /\ name \in DOMAIN cacheDir'
                  /\ cacheDir'[name].size = cacheDir[name].size ]_vars

-----------------------------------------------------------------------------
(* Properties of the cache key (SpecKeys) *)

\* C33: two distinct entries that are in the catalog together never have the
\* same cache file name, entries without appid on one platform included.
C33_CacheKeyInjective ==
    \A i, j \in 1..Len(allGames) :
        allGames[i] # allGames[j] => fileName(allGames[i]) # fileName(allGames[j])

-----------------------------------------------------------------------------
(* Properties of the cards of a pass (SpecRender) *)

\* the cards a step appends to the container
NewCards ==
    IF Len(container') > Len(container)
    THEN SubSeq(container', Len(container) + 1, Len(container'))
    ELSE << >>

\* C34: once a pass has started and cleared the container, no card of an
\* earlier pass is appended to it; in particular no card whose timer was set
\* by a pass that had finished (isRendering false) before the new pass
\* started.
C34_NoCardOfFinishedPass ==
    [][ \A k \in 1..Len(NewCards) :
          \A q \in 1..Len(passes) :
              NewCards[k].pass < q => passes[q].aborting ]_vars

\* C35: a pass that completes without being superseded shows every entry
\* that passes the filter exactly once: the container holds as many cards as
\* there are filtered entries, entries without appid and entries of
\* different platforms with the same appid included.
C35_EveryFilteredEntryShownOnce ==
    ( /\ Len(passes) = 1
      /\ passes[1].pc = "done"
      /\ pendingCardTimers = << >> ) =>
        Len(container) = Len(passes[1].visible)

-----------------------------------------------------------------------------
(* Properties of the line buffers (SpecBuffers) *)

\* the unterminated tail of a text
LastSegment(text) == LET split == Split(text, << >>) IN split[Len(split)]

\* C37: every candidate process has a line buffer of its own: at every
\* moment the buffer of a process is the unterminated tail of what that
\* process itself has written, whatever a failed candidate before it left
\* unterminated and whatever data other processes deliver.
C37_OwnLineBuffer ==
    \A p \in Pids : procs[p].outputBuffer = LastSegment(WrittenText(p))

\* a candidate failed with a partial line in its buffer, and the fallback
\* candidate spawned for it has written a whole progress line, merged as it is
C37_Witness_PartialLineDiscarded ==
    \E p, q \in Pids :
        /\ procs[q].parent = p
        /\ procs[p].st = "closed"
        /\ procs[p].outputBuffer = << "[", "x" >>
        /\ procs[q].out = Line(<< "{", "a", "}" >>)
        /\ procs[q].pos = Len(procs[q].out)
        /\ procs[q].outputBuffer = << >>
        /\ allGames = NormalizedGames(<< GameOf.a >>)

-----------------------------------------------------------------------------
(* Properties of the merge of a record without name (SpecNameless) *)

AllNamed(b) == \A i \in 1..Len(b) : b[i].name # NoValue

\* the catalog after the batches, in order, when a batch that holds a record
\* without name contributes nothing and every other batch is merged
RECURSIVE MergeNamed(_, _)
MergeNamed(games, batches) ==
    IF batches = << >> THEN games
    ELSE IF AllNamed(Head(batches))
         THEN MergeNamed(games \o UniqueGames(games, Head(batches)), Tail(batches))
         ELSE MergeNamed(games, Tail(batches))

\* C38: a progress line whose batch holds a record without name appends
\* nothing (the records before and after the bad one included) and leaves
\* the catalog as it was; the data handler goes on: the supervisor's state
\* and the process are untouched and the progress lines after it are merged.
C38_BadRecordRejectsBatch ==
    [][ \A p \in Pids :
          (Len(procs') = Len(procs) /\ procs'[p].pos > procs[p].pos) =>
            LET text  == toString(SubSeq(procs[p].out, procs[p].pos + 1, procs'[p].pos))
                split == Split(procs[p].outputBuffer \o text, << >>)
                lines == SubSeq(split, 1, Len(split) - 1)
            IN  /\ allGames' = MergeNamed(allGames, ValidBatches(lines))
                /\ procs'[p].st = procs[p].st
                /\ UNCHANGED << isScanning, btnDisabled, scanTimer, timers,
                                resetTimers, ended, session, toast >> ]_vars

\* the batch of Foo and a nameless record was dropped whole, the later line
\* with Bar was merged
C38_Witness_LaterBatchMerged ==
    \E p \in Pids :
        /\ procs[p].out = Line(<< "{", "a", "u", "}" >>) \o Line(<< "{", "b", "}" >>)
        /\ procs[p].pos = Len(procs[p].out)
        /\ procs[p].st = "alive"
        /\ isScanning
        /\ allGames = NormalizedGames(<< GameOf.b >>)

(***************************************************************************)
(* C39: a checkForUpdates call made while an earlier check has been        *)
(* started and has not reported its result returns without starting a      *)
(* second check: the number of calls waiting on the library stays as it    *)
(* was.                                                                    *)
(***************************************************************************)
C39_CallDuringCheckReturns ==
    [][ (awaiting > 0 /\ checkCalls' = checkCalls + 1) => awaiting' = awaiting ]_vars

====
